---- MODULE Spec2Model ----
(***************************************************************************)
(* State-machine model of the watermark_zero embed/extract engine.         *)
(*                                                                         *)
(* Numbers.  Go's int is a two's-complement integer; where a value comes   *)
(* straight from the caller (the block-shape arguments) the model keeps    *)
(* the wrap-around, with the width scaled down from 64 to IntBits bits so  *)
(* that the whole range can be enumerated.  / and % are Go's truncating    *)
(* operators.  Singular values and votes are real numbers in the code; the *)
(* model carries them exactly, in quarter units (a value v is stored as    *)
(* 4*v), which is closed under the embed rule for integer strengths.       *)
(* Averages and cluster centers are exact fractions <<n, d>>; <<0, 0>> is  *)
(* the float NaN (0/0).  Float rounding is not modelled.                   *)
(***************************************************************************)
EXTENDS Integers, Sequences, FiniteSets, TLC

VARIABLES
    \* block-shape canonicalization (options.go, watermark_helper.go, block.go)
    shFn, shW, shH, shOut, shPc,
    \* engine construction: New(opts...)
    nwVariant, nwGiven, nwOpts, w, nwErr, nwPc,
    \* the embed and extract rules applied to one block's singular values
    ruRule, ruD1, ruD2, ruS0, ruS1, ruBit, ruR, ruV, ruPc,
    \* one call of Watermark.Embed or Watermark.Extract and its three workers
    rnW, rnOp, rnWidth, rnHeight, rnImage, rnMark, rnMarkLen,
    rnPc, rnWpc, rnAt, rnColors, rnCA, rnDist, rnLast, rnRet, rnPanic,
    \* one channel transformed directly and through cached wavelets
    dwData, dwW, dwBw, dwBh, dwWavelets, dwGot, dwWant,
    \* a Batch: the channels and subbands it was made from, its source, its
    \* cached wavelets, the heap of float arrays and of channel lists, and the
    \* Embed or Extract call in progress; bcImages names the images returned
    \* so far and bcImage holds the channels of the last one until the next call
    bcData, bcSubbands, heap, outers, bcSrc, bcWavelets, bcCalls, bcImages, bcImage,
    bcOp, bcMark, bcCallSrc, bcWave, bcWpc, bcAt,
    \* the rule a strength (d1, d2) selects, applied to one block: by the engine built with WithD1D2 and by the internal Embed and Extract
    mdPath, mdOp, mdD1, mdD2, mdS0, mdS1, mdBit, mdR, mdV, mdPc,
    \* a dct.Cache shared by goroutines that call Cache.New: the sync.Map, each goroutine's position, key and computed engine, and what the calls computed and returned so far
    cacheData, ccPc, ccShape, ccDct, ccCalls, ccComputed, ccReturned, ccFinished,
    \* the accumulators of one Extract and its three workers, each Add taken statement by statement under the store's mutex
    asT, asMarkLen, asVote, asDist, asMu, asPc, asAt, asTmp, asJoined,
    \* a block map built for a W x H grid and bw x bh blocks, and the permutation GetMap returns
    bmW, bmH, bmBw, bmBh, bmM, bmMap, bmPc,
    \* one channel taken through HaarDWT and back through HaarIDWT with the same index map
    rtData, rtW, rtH, rtMap, rtWave, rtOut, rtPc,
    \* one Embed worker at the level of coefficients: the four subbands after the DWT and as the block loop leaves them, and the sub-slices handed to dct.Exec
    bkW, bkH, bkShape, bkBefore, bkWave, bkAt, bkSlices, bkPc,
    \* one call of OneDimKmeans, iteration by iteration: its input, the centers, the labels and cluster sizes of the last iteration, and the iterations run
    kmAverages, kmCenter, kmLabels, kmSizes, kmIter, kmPc,
    \* one pixel through ColorToYUVBatch and YUVToRGBA64Batch: the colour, the planes y, u, v and alpha at its index, and the pixel written back
    yuPixel, yuY, yuU, yuV, yuAlpha, yuOut, yuPc

shapeVars == <<shFn, shW, shH, shOut, shPc>>
newVars == <<nwVariant, nwGiven, nwOpts, w, nwErr, nwPc>>
ruleVars == <<ruRule, ruD1, ruD2, ruS0, ruS1, ruBit, ruR, ruV, ruPc>>
runInputs == <<rnW, rnOp, rnWidth, rnHeight, rnImage, rnMark, rnMarkLen>>
runVars == <<runInputs, rnPc, rnWpc, rnAt, rnColors, rnCA, rnDist, rnLast, rnRet, rnPanic>>
dwtVars == <<dwData, dwW, dwBw, dwBh, dwWavelets, dwGot, dwWant>>
batchVars == <<bcData, bcSubbands, heap, outers, bcSrc, bcWavelets, bcCalls, bcImages, bcImage,
               bcOp, bcMark, bcCallSrc, bcWave, bcWpc, bcAt>>
modeVars == <<mdPath, mdOp, mdD1, mdD2, mdS0, mdS1, mdBit, mdR, mdV, mdPc>>
cacheVars == <<cacheData, ccPc, ccShape, ccDct, ccCalls, ccComputed, ccReturned, ccFinished>>
storeVars == <<asT, asMarkLen, asVote, asDist, asMu, asPc, asAt, asTmp, asJoined>>
mapVars == <<bmW, bmH, bmBw, bmBh, bmM, bmMap, bmPc>>
tripVars == <<rtData, rtW, rtH, rtMap, rtWave, rtOut, rtPc>>
blocksVars == <<bkW, bkH, bkShape, bkBefore, bkWave, bkAt, bkSlices, bkPc>>
kmeansVars == <<kmAverages, kmCenter, kmLabels, kmSizes, kmIter, kmPc>>
yuvVars == <<yuPixel, yuY, yuU, yuV, yuAlpha, yuOut, yuPc>>
vars == <<shapeVars, newVars, ruleVars, runVars, dwtVars, batchVars, modeVars, cacheVars, storeVars, mapVars, tripVars, blocksVars, kmeansVars, yuvVars>>

\* what the operations of one part of the program leave alone
exceptShape == <<newVars, ruleVars, runVars, dwtVars, batchVars, modeVars, cacheVars, storeVars, mapVars, tripVars, blocksVars, kmeansVars, yuvVars>>
exceptNew == <<shapeVars, ruleVars, runVars, dwtVars, batchVars, modeVars, cacheVars, storeVars, mapVars, tripVars, blocksVars, kmeansVars, yuvVars>>
exceptRule == <<shapeVars, newVars, runVars, dwtVars, batchVars, modeVars, cacheVars, storeVars, mapVars, tripVars, blocksVars, kmeansVars, yuvVars>>
exceptRun == <<shapeVars, newVars, ruleVars, dwtVars, batchVars, modeVars, cacheVars, storeVars, mapVars, tripVars, blocksVars, kmeansVars, yuvVars>>
exceptDwt == <<shapeVars, newVars, ruleVars, runVars, batchVars, modeVars, cacheVars, storeVars, mapVars, tripVars, blocksVars, kmeansVars, yuvVars>>
exceptBatch == <<shapeVars, newVars, ruleVars, runVars, dwtVars, modeVars, cacheVars, storeVars, mapVars, tripVars, blocksVars, kmeansVars, yuvVars>>
exceptMode == <<shapeVars, newVars, ruleVars, runVars, dwtVars, batchVars, cacheVars, storeVars, mapVars, tripVars, blocksVars, kmeansVars, yuvVars>>
exceptCache == <<shapeVars, newVars, ruleVars, runVars, dwtVars, batchVars, modeVars, storeVars, mapVars, tripVars, blocksVars, kmeansVars, yuvVars>>
exceptStore == <<shapeVars, newVars, ruleVars, runVars, dwtVars, batchVars, modeVars, cacheVars, mapVars, tripVars, blocksVars, kmeansVars, yuvVars>>
exceptMap == <<shapeVars, newVars, ruleVars, runVars, dwtVars, batchVars, modeVars, cacheVars, storeVars, tripVars, blocksVars, kmeansVars, yuvVars>>
exceptTrip == <<shapeVars, newVars, ruleVars, runVars, dwtVars, batchVars, modeVars, cacheVars, storeVars, mapVars, blocksVars, kmeansVars, yuvVars>>
exceptBlocks == <<shapeVars, newVars, ruleVars, runVars, dwtVars, batchVars, modeVars, cacheVars, storeVars, mapVars, tripVars, kmeansVars, yuvVars>>
exceptKmeans == <<shapeVars, newVars, ruleVars, runVars, dwtVars, batchVars, modeVars, cacheVars, storeVars, mapVars, tripVars, blocksVars, yuvVars>>
exceptYuv == <<shapeVars, newVars, ruleVars, runVars, dwtVars, batchVars, modeVars, cacheVars, storeVars, mapVars, tripVars, blocksVars, kmeansVars>>

\* ------------------------------------------------------------------ bounds
IntBits == 7
MaxOpts == 2
MaxStrength == 2
MaxD == 4
MaxS == 6

\* ------------------------------------------------------- program constants
defaultD1 == 36
defaultD2 == 20
defaultShapeSide == 4

Nil == "nil"
\* a nil pointer to a shape or to a DCT/SVD engine, and a nil closure
NilShape == <<>>
NilRule == [rule |-> "nil", d1 |-> 0, d2 |-> 0]

\* ------------------------------------------------------------ Go integers
RECURSIVE Pow2(_)
Pow2(n) == IF n = 0 THEN 1 ELSE 2 * Pow2(n - 1)

MaxInt == Pow2(IntBits - 1) - 1
MinInt == 0 - Pow2(IntBits - 1)
GoInts == MinInt .. MaxInt

\* the value an int variable holds after an arithmetic result x (wrap-around)
WrapInt(x) == ((x - MinInt) % Pow2(IntBits)) + MinInt

Abs(x) == IF x < 0 THEN 0 - x ELSE x

\* Go's a / b: the quotient truncated toward zero (b /= 0)
GoDiv(a, b) ==
    LET q == Abs(a) \div Abs(b)
    IN  IF (a < 0) = (b < 0) THEN q ELSE 0 - q

\* Go's a % b: the remainder with the sign of a (b /= 0)
GoRem(a, b) == a - b * GoDiv(a, b)

\* --------------------------------------------------- block shape (C9, C10)
\* one dimension of the canonicalization: odd -> +1, < 4 -> 4, then halved
HalfSideNoClamp(x) ==
    LET even == IF GoRem(x, 2) # 0 THEN WrapInt(x + 1) ELSE x
    IN  GoDiv(even, 2)

HalfSide(x) ==
    LET even == IF GoRem(x, 2) # 0 THEN WrapInt(x + 1) ELSE x
        clamped == IF even < 4 THEN 4 ELSE even
    IN  GoDiv(clamped, 2)

\* newBlockShape of the root package
newBlockShape(width, height) == <<HalfSide(width), HalfSide(height)>>

\* NewBlockShape of internal/watermark
NewBlockShape(width, height) == <<HalfSide(width), HalfSide(height)>>

\* the shape WithBlockShape(width, height) stores in the engine
WithBlockShapeStored(width, height) == <<HalfSide(width), HalfSide(height)>>

\* BlockShape.IsZero of internal/watermark
IsZero(s) == s[1] < 2 \/ s[2] < 2

ShapeFns == {"WithBlockShape", "newBlockShape", "NewBlockShape"}

ShapeInit ==
    /\ shFn \in ShapeFns
    /\ shW \in GoInts
    /\ shH \in GoInts
    /\ shOut = <<0, 0>>
    /\ shPc = "call"

CallWithBlockShape ==
    /\ shPc = "call" /\ shFn = "WithBlockShape"
    /\ shOut' = WithBlockShapeStored(shW, shH)
    /\ shPc' = "done"
    /\ UNCHANGED <<shFn, shW, shH, exceptShape>>

CallnewBlockShape ==
    /\ shPc = "call" /\ shFn = "newBlockShape"
    /\ shOut' = newBlockShape(shW, shH)
    /\ shPc' = "done"
    /\ UNCHANGED <<shFn, shW, shH, exceptShape>>

CallNewBlockShape ==
    /\ shPc = "call" /\ shFn = "NewBlockShape"
    /\ shOut' = NewBlockShape(shW, shH)
    /\ shPc' = "done"
    /\ UNCHANGED <<shFn, shW, shH, exceptShape>>

ShapeIdle ==
    /\ shFn = "WithBlockShape" /\ shW = 0 /\ shH = 0
    /\ shOut = <<0, 0>> /\ shPc = "idle"

\* ------------------------------------------------ engine construction (C5)
\* The two engines of the repository: "plain" keeps a DCT and an SVD engine
\* in the struct (watermark.go, options.go), "cache" keeps a *blockShape and
\* a DCT cache (the later revision of watermark.go and options.go).
Variants == {"plain", "cache"}

StrengthArgs == (0 - 1) .. MaxStrength
ShapeArgs == {0 - 3, 0, 5, 8}

Options ==
    [kind : {"WithBlockShape"}, a : ShapeArgs, b : ShapeArgs]
        \cup [kind : {"WithD1"}, a : StrengthArgs, b : {0}]
        \cup [kind : {"WithD1D2"}, a : StrengthArgs, b : StrengthArgs]

RECURSIVE SeqsUpTo(_, _)
SeqsUpTo(S, n) ==
    IF n = 0 THEN {<<>>}
    ELSE LET shorter == SeqsUpTo(S, n - 1)
         IN  shorter \cup {Append(s, x) : s \in {t \in shorter : Len(t) = n - 1}, x \in S}

\* new(Watermark): every field holds its zero value
ZeroWatermark(variant) ==
    [blockShape |-> IF variant = "plain" THEN <<0, 0>> ELSE NilShape,
     embed |-> NilRule, extract |-> NilRule,
     dct |-> NilShape, svd |-> NilShape, dctCache |-> Nil]

\* setEmbedD1 / setExtractD1 / setEmbedD1D2 / setExtractD1D2: each stores the
\* closure (here: its rule and captured strengths) and returns a nil error
setEmbedD1(e, d1) == [e EXCEPT !.embed = [rule |-> "D1", d1 |-> d1, d2 |-> 0]]
setExtractD1(e, d1) == [e EXCEPT !.extract = [rule |-> "D1", d1 |-> d1, d2 |-> 0]]
setEmbedD1D2(e, d1, d2) == [e EXCEPT !.embed = [rule |-> "D1D2", d1 |-> d1, d2 |-> d2]]
setExtractD1D2(e, d1, d2) == [e EXCEPT !.extract = [rule |-> "D1D2", d1 |-> d1, d2 |-> d2]]

\* the error a set* function returns: always nil
setStrengthErr(d1, d2) == Nil

\* the option closures applied to the engine by New
ApplyWithBlockShape(e, variant, o) ==
    IF variant = "plain"
    THEN LET s == WithBlockShapeStored(o.a, o.b)
         IN  [e EXCEPT !.blockShape = s, !.dct = s, !.svd = s]
    ELSE [e EXCEPT !.blockShape = newBlockShape(o.a, o.b)]

ApplyWithD1(e, o) == setExtractD1(setEmbedD1(e, o.a), o.a)

ApplyWithD1D2(e, o) == setExtractD1D2(setEmbedD1D2(e, o.a, o.b), o.a, o.b)

OptionErr(o) ==
    IF o.kind = "WithBlockShape" THEN Nil ELSE setStrengthErr(o.a, o.b)

\* Watermark.init of watermark.go
initPlain(e) ==
    LET e1 == IF e.embed = NilRule \/ e.extract = NilRule
              THEN setExtractD1D2(setEmbedD1D2(e, defaultD1, defaultD2),
                                  defaultD1, defaultD2)
              ELSE e
        defaultShape == <<defaultShapeSide, defaultShapeSide>>
    IN  IF e1.dct = NilShape \/ e1.svd = NilShape
        THEN [e1 EXCEPT !.blockShape = defaultShape,
                        !.dct = defaultShape, !.svd = defaultShape]
        ELSE e1

\* Watermark.init of the cache revision
initCache(e) ==
    LET e1 == IF e.embed = NilRule \/ e.extract = NilRule
              THEN setExtractD1D2(setEmbedD1D2(e, defaultD1, defaultD2),
                                  defaultD1, defaultD2)
              ELSE e
        e2 == IF e1.dctCache = Nil THEN [e1 EXCEPT !.dctCache = "cache"] ELSE e1
    IN  IF e2.blockShape = NilShape
        THEN [e2 EXCEPT !.blockShape = newBlockShape(defaultShapeSide, defaultShapeSide)]
        ELSE e2

NewInit ==
    /\ nwVariant \in Variants
    /\ nwGiven \in SeqsUpTo(Options, MaxOpts)
    /\ nwOpts = nwGiven
    /\ w = ZeroWatermark(nwVariant)
    /\ nwErr = Nil
    /\ nwPc = "opts"

\* for _, opt := range opts { if err := opt(w); err != nil { return nil, err } }
NewApplyOption ==
    /\ nwPc = "opts" /\ nwOpts # <<>>
    /\ LET o == Head(nwOpts)
           err == OptionErr(o)
       IN  IF err # Nil
           THEN /\ nwErr' = err /\ nwPc' = "failed"
                /\ UNCHANGED <<w, nwOpts>>
           ELSE /\ w' = CASE o.kind = "WithBlockShape" -> ApplyWithBlockShape(w, nwVariant, o)
                          [] o.kind = "WithD1" -> ApplyWithD1(w, o)
                          [] OTHER -> ApplyWithD1D2(w, o)
                /\ nwOpts' = Tail(nwOpts)
                /\ UNCHANGED <<nwErr, nwPc>>
    /\ UNCHANGED <<nwVariant, nwGiven, exceptNew>>

\* if err := w.init(); err != nil { return nil, err }; return w, nil
NewInitDefaults ==
    /\ nwPc = "opts" /\ nwOpts = <<>>
    /\ w' = IF nwVariant = "plain" THEN initPlain(w) ELSE initCache(w)
    /\ nwPc' = "built"
    /\ UNCHANGED <<nwVariant, nwGiven, nwOpts, nwErr, exceptNew>>

NewIdle ==
    /\ nwVariant = "plain" /\ nwGiven = <<>> /\ nwOpts = <<>>
    /\ w = ZeroWatermark("plain") /\ nwErr = Nil /\ nwPc = "idle"

\* -------------------------------------------- embed / extract rules (C4)
\* A singular value or a vote v is carried as the integer 4*v.
Quarter == 4

\* Go's int(x) of a float64: the fraction is dropped (truncation toward zero)
IntOf(xq) == GoDiv(xq, Quarter)

\* an embed value whose cell index is rounded to the nearest cell
EmbedValueNearest(sq, d, bit) ==
    Quarter * GoDiv(IntOf(sq) + GoDiv(d, 2), d) * d + d + d * bit

\* (float64(int(s)/d) + 1.0/4.0 + 1.0/2.0*0.5*bit) * float64(d), in quarters:
\* the constant factor of bit is 1/2 * 0.5 = 1/4
EmbedValue(sq, d, bit) == Quarter * GoDiv(IntOf(sq), d) * d + d + d * bit

\* a test that also accepts the middle of the cell
AtLeastHalf(sq, d) == GoRem(IntOf(sq), d) >= GoDiv(d, 2)

\* int(s)%d > d/2
AboveHalf(sq, d) == GoRem(IntOf(sq), d) > GoDiv(d, 2)

\* the closure setEmbedD1(d1) stores
embedD1(d1, s0, s1, bit) == <<EmbedValue(s0, d1, bit), s1>>

\* the closure setEmbedD1D2(d1, d2) stores
embedD1D2(d1, d2, s0, s1, bit) == <<EmbedValue(s0, d1, bit), EmbedValue(s1, d2, bit)>>

\* the closure setExtractD1(d1) stores
extractD1(d1, s0, s1) == IF AboveHalf(s0, d1) THEN Quarter ELSE 0

\* the closure setExtractD1D2(d1, d2) stores: (v*3 + 1)/4 or (v*3)/4
extractD1D2(d1, d2, s0, s1) ==
    LET v == IF AboveHalf(s0, d1) THEN 1 ELSE 0
    IN  IF AboveHalf(s1, d2) THEN v * 3 + 1 ELSE v * 3

\* w.embed(s0, s1, bit) and w.extract(s0, s1) for a stored closure r
embed(r, s0, s1, bit) ==
    IF r.rule = "D1" THEN embedD1(r.d1, s0, s1, bit)
    ELSE embedD1D2(r.d1, r.d2, s0, s1, bit)

extract(r, s0, s1) ==
    IF r.rule = "D1" THEN extractD1(r.d1, s0, s1)
    ELSE extractD1D2(r.d1, r.d2, s0, s1)

Rules == {"D1", "D1D2"}
Bits == {0, 1}
\* singular values in quarter steps, 0 <= s < MaxS
SingularValues == 0 .. (Quarter * MaxS - 1)

RuleOf(rule, d1, d2) == [rule |-> rule, d1 |-> d1, d2 |-> IF rule = "D1" THEN 0 ELSE d2]

\* the singular values of a block are non-negative and descending
RuleInit ==
    /\ ruRule \in Rules
    /\ ruD1 \in 1 .. MaxD
    /\ ruD2 \in 1 .. MaxD
    /\ (ruRule = "D1" => ruD2 = 1)
    /\ ruS0 \in SingularValues
    /\ ruS1 \in {s \in SingularValues : s <= ruS0}
    /\ ruBit \in Bits
    /\ ruR = <<ruS0, ruS1>>
    /\ ruV = 0
    /\ ruPc = "read"

\* s[0], s[1] = w.embed(s[0], s[1], bit)
RuleEmbed ==
    /\ ruPc = "read"
    /\ ruR' = embed(RuleOf(ruRule, ruD1, ruD2), ruS0, ruS1, ruBit)
    /\ ruPc' = "embedded"
    /\ UNCHANGED <<ruRule, ruD1, ruD2, ruS0, ruS1, ruBit, ruV, exceptRule>>

\* v := w.extract(s[0], s[1]) on the values as they were written
RuleExtract ==
    /\ ruPc = "embedded"
    /\ ruV' = extract(RuleOf(ruRule, ruD1, ruD2), ruR[1], ruR[2])
    /\ ruPc' = "extracted"
    /\ UNCHANGED <<ruRule, ruD1, ruD2, ruS0, ruS1, ruBit, ruR, exceptRule>>

\* v := w.extract(s[0], s[1]) on the singular values of an arbitrary block
RuleExtractRaw ==
    /\ ruPc = "read"
    /\ ruV' = extract(RuleOf(ruRule, ruD1, ruD2), ruS0, ruS1)
    /\ ruPc' = "voted"
    /\ UNCHANGED <<ruRule, ruD1, ruD2, ruS0, ruS1, ruBit, ruR, exceptRule>>

RuleIdle ==
    /\ ruRule = "D1" /\ ruD1 = 1 /\ ruD2 = 1 /\ ruS0 = 0 /\ ruS1 = 0
    /\ ruBit = 0 /\ ruR = <<0, 0>> /\ ruV = 0 /\ ruPc = "idle"

\* C4 (as stated): with the singular value read back exactly as written, the
\* one-parameter extract rule returns the embedded bit (1 for 1, 0 for 0).
C4_BitRecovered ==
    (ruPc = "extracted" /\ ruRule = "D1") => ruV = Quarter * ruBit

\* ------------------------------------------------- float64 as fractions
\* A float64 is an exact fraction <<n, d>> in lowest terms with d > 0, or
\* NaN == <<0, 0>> (the result of 0.0/0.0).  Arithmetic with NaN gives NaN and
\* every comparison with NaN is false, as in IEEE 754.
NaN == <<0, 0>>
IsNaN(x) == x[2] = 0

RECURSIVE GCD(_, _)
GCD(a, b) == IF b = 0 THEN a ELSE GCD(b, a % b)

Frac(n, d) ==
    IF d = 0 THEN NaN
    ELSE LET g == GCD(Abs(n), d) IN <<n \div g, d \div g>>

FAdd(x, y) ==
    IF IsNaN(x) \/ IsNaN(y) THEN NaN
    ELSE Frac(x[1] * y[2] + y[1] * x[2], x[2] * y[2])

FSub(x, y) == IF IsNaN(y) THEN NaN ELSE FAdd(x, <<0 - y[1], y[2]>>)

\* x / float64(k) for a count k >= 0; a store with count 0 has sum 0: 0/0
FDivInt(x, k) == IF IsNaN(x) THEN NaN ELSE Frac(x[1], x[2] * k)

FAbs(x) == <<Abs(x[1]), x[2]>>

FLt(x, y) == ~IsNaN(x) /\ ~IsNaN(y) /\ x[1] * y[2] < y[1] * x[2]
FLe(x, y) == ~IsNaN(x) /\ ~IsNaN(y) /\ x[1] * y[2] <= y[1] * x[2]

\* -------------------------------------------------- kmeans.AverageStore
ZeroStore == [sum |-> <<0, 1>>, count |-> 0]

\* a faulty Add that overwrites the sum instead of accumulating
AddOverwrite(s, value) == [sum |-> value, count |-> s.count + 1]

\* AverageStore.Add: s.sum += value; s.count += 1 (under the store's mutex)
Add(s, value) == [sum |-> FAdd(s.sum, value), count |-> s.count + 1]

\* AverageStore.Average: s.sum / float64(s.count)
Average(s) == FDivInt(s.sum, s.count)

\* ---------------------------------------------------- kmeans.OneDimKmeans
maxIter == 300
\* etol := math.Pow10(-6)
etolDen == 1000000
etol == <<1, etolDen>>

\* the initial centers: min and max of the averages, found by one pass
RECURSIVE MinMax(_, _, _, _)
MinMax(averages, i, min, max) ==
    IF i > Len(averages) THEN <<min, max>>
    ELSE LET v == averages[i]
         IN  MinMax(averages, i + 1,
                    IF FLt(v, min) THEN v ELSE min,
                    IF FLt(max, v) THEN v ELSE max)

\* a pass that labels a value true only when it is above the threshold
RECURSIVE AssignStrict(_, _, _, _, _, _)
AssignStrict(averages, threshold, i, labels, higts, lows) ==
    IF i > Len(averages) THEN [labels |-> labels, higts |-> higts, lows |-> lows]
    ELSE CHOOSE r \in
            {AssignStrict(averages, threshold, i + 1, st.labels, st.higts, st.lows) :
                st \in {IF FLt(threshold, averages[i])
                        THEN [labels |-> Append(labels, TRUE),
                              higts |-> Add(higts, averages[i]), lows |-> lows]
                        ELSE [labels |-> Append(labels, FALSE),
                              higts |-> higts, lows |-> Add(lows, averages[i])]}} : TRUE

\* one pass over the averages with a threshold: labels, highs, lows; the
\* element's verdict and the updated stores are values before the next
\* element is read, as in the loop
RECURSIVE Assign(_, _, _, _, _, _)
Assign(averages, threshold, i, labels, higts, lows) ==
    IF i > Len(averages) THEN [labels |-> labels, higts |-> higts, lows |-> lows]
    ELSE CHOOSE r \in
            {Assign(averages, threshold, i + 1, st.labels, st.higts, st.lows) :
                st \in {IF FLe(threshold, averages[i])
                        THEN [labels |-> Append(labels, TRUE),
                              higts |-> Add(higts, averages[i]), lows |-> lows]
                        ELSE [labels |-> Append(labels, FALSE),
                              higts |-> higts, lows |-> Add(lows, averages[i])]}} : TRUE

\* a threshold that is the sum of the centers, not their mean
MidpointSum(center) == FAdd(center[1], center[2])

\* threshold := (center[0] + center[1]) / 2.
Midpoint(center) == FDivInt(FAdd(center[1], center[2]), 2)

\* the loop "for range 300": the labels of the last iteration that ran
RECURSIVE KmeansLoop(_, _, _)
KmeansLoop(averages, center, left) ==
    LET threshold == Midpoint(center)
        pass == Assign(averages, threshold, 1, <<>>, ZeroStore, ZeroStore)
        next == <<Average(pass.higts), Average(pass.lows)>>
        diff == FAbs(FSub(Midpoint(next), threshold))
    IN  IF FLt(diff, etol) \/ left = 1 THEN pass.labels
        \* with unchanged centers every remaining iteration repeats this one
        ELSE IF next = center THEN pass.labels
        ELSE KmeansLoop(averages, next, left - 1)

\* OneDimKmeans(averages) for a non-empty slice (averages[0] panics on an
\* empty one: see ExtractJoin)
OneDimKmeans(averages) ==
    KmeansLoop(averages, MinMax(averages, 1, averages[1], averages[1]), maxIter)

\* --------------------------------- Watermark.Embed and Watermark.Extract
\* An image enters the model as its size and, for each channel and each
\* block of the channel's cA subband, what the DCT and SVD of the block
\* give: the two largest singular values (in quarters), or a failed
\* factorization.
MaxWidth == 7
ImgHeight == 3
MaxMark == 2
RunD == 3
MaxFailed == 1

Channels == 1 .. 3

ErrTooSmallImage == "ErrTooSmallImage"

\* New(opts...) of watermark.go
RECURSIVE ApplyOptions(_, _)
ApplyOptions(e, opts) ==
    IF opts = <<>> THEN e
    ELSE LET o == Head(opts)
         IN  ApplyOptions(CASE o.kind = "WithBlockShape" -> ApplyWithBlockShape(e, "plain", o)
                            [] o.kind = "WithD1" -> ApplyWithD1(e, o)
                            [] OTHER -> ApplyWithD1D2(e, o),
                          Tail(opts))

New(opts) == initPlain(ApplyOptions(ZeroWatermark("plain"), opts))

\* the option lists of the engines that run: 4x4 blocks, one- and
\* two-parameter strength, and the strength 0 that New accepts
RunOptions ==
    LET shape == [kind |-> "WithBlockShape", a |-> 4, b |-> 4]
    IN  {<<shape, [kind |-> "WithD1", a |-> d, b |-> 0]>> : d \in {0, RunD}}
            \cup {<<shape, [kind |-> "WithD1D2", a |-> RunD, b |-> RunD]>>}

\* (width + 1) / 2
WaveSide(n) == GoDiv(n + 1, 2)

\* a block count taken from the areas instead of the sides
totalBlocksByArea(shape, width, height) ==
    GoDiv(WaveSide(width) * WaveSide(height), shape[1] * shape[2])

\* (waveWidth / w.blockShape[0]) * (waveHeight / w.blockShape[1])
totalBlocks(shape, width, height) ==
    GoDiv(WaveSide(width), shape[1]) * GoDiv(WaveSide(height), shape[2])

\* what svd.Exec gives for a block: an error, or singular values s[0] >= s[1]
SvdFailed == [ok |-> FALSE, s0 |-> 0, s1 |-> 0]
BlockKinds ==
    {SvdFailed,
     [ok |-> TRUE, s0 |-> 0, s1 |-> 0],
     [ok |-> TRUE, s0 |-> Quarter * (RunD - 1), s1 |-> 0]}

RECURSIVE SeqsOfLen(_, _)
SeqsOfLen(S, n) ==
    IF n = 0 THEN {<<>>}
    ELSE {Append(s, x) : s \in SeqsOfLen(S, n - 1), x \in S}

\* int(s)/d and int(s)%d panic (integer divide by zero) for d = 0
RulePanics(r) == r.d1 = 0 \/ (r.rule = "D1D2" /\ r.d2 = 0)

\* a getBit that always reads mark[0]
getBitOfFirst(mark, at) == IF mark[1] THEN 1 ELSE 0

\* getBit: the float64 1 or 0 of mark[at%markLen]
getBit(mark, at) == IF mark[GoRem(at, Len(mark)) + 1] THEN 1 ELSE 0

\* the number of blocks of an image whose factorization fails
Failed(img) ==
    Cardinality({<<c, k>> \in Channels \X (1 .. Len(img[1])) : ~img[c][k].ok})

RunT == totalBlocks(rnW.blockShape, rnWidth, rnHeight)

RunInit ==
    /\ rnW \in {New(opts) : opts \in RunOptions}
    /\ rnOp \in {"Embed", "Extract"}
    /\ rnWidth \in 0 .. MaxWidth
    /\ rnHeight = ImgHeight
    /\ rnImage \in [Channels -> SeqsOfLen(BlockKinds, RunT)]
    /\ Failed(rnImage) <= MaxFailed
    /\ IF rnOp = "Embed"
       THEN /\ rnMark \in SeqsUpTo(BOOLEAN, MaxMark)
            /\ rnMarkLen = Len(rnMark)
       ELSE /\ rnMark = <<>>
            /\ rnMarkLen \in (0 - 1) .. MaxMark
    /\ rnPc = "call"
    /\ rnWpc = [c \in Channels |-> "idle"]
    /\ rnAt = [c \in Channels |-> 0]
    /\ rnColors = [c \in Channels |-> "none"]
    /\ rnCA = [c \in Channels |-> <<>>]
    /\ rnDist = <<>>
    /\ rnLast = 0
    /\ rnRet = [err |-> Nil, value |-> <<>>]
    /\ rnPanic = Nil

RunIdle ==
    /\ rnW = ZeroWatermark("plain") /\ rnOp = "none" /\ rnWidth = 0 /\ rnHeight = 0
    /\ rnImage = <<>> /\ rnMark = <<>> /\ rnMarkLen = 0
    /\ rnPc = "idle"
    /\ rnWpc = [c \in Channels |-> "idle"]
    /\ rnAt = [c \in Channels |-> 0]
    /\ rnColors = [c \in Channels |-> "none"]
    /\ rnCA = [c \in Channels |-> <<>>]
    /\ rnDist = <<>>
    /\ rnLast = 0
    /\ rnRet = [err |-> Nil, value |-> <<>>]
    /\ rnPanic = Nil

\* a run-time panic in any goroutine ends the program
\* a wait that returns when two of the workers are done
wgWaitForTwo(wpc) == Cardinality({c \in Channels : wpc[c] = "done"}) >= 2

\* wg.Add(3) ... wg.Wait(): returns when each of the three workers has run
\* its deferred wg.Done()
wgWait(wpc) == \A c \in Channels : wpc[c] = "done"

Panic(reason) ==
    /\ rnPc' = "panic"
    /\ rnPanic' = reason

\* Embed up to wg.Add(3) and the three "go func": the capacity check, the
\* YUV buffers, the block map
EmbedEnter ==
    /\ rnPc = "call" /\ rnOp = "Embed"
    /\ IF RunT < rnMarkLen
       THEN /\ rnRet' = [err |-> ErrTooSmallImage, value |-> <<>>]
            /\ rnPc' = "returned"
            /\ UNCHANGED <<rnWpc, rnColors>>
       ELSE /\ rnColors' = [c \in Channels |-> "yuv"]
            /\ rnWpc' = [c \in Channels |-> "dwt"]
            /\ rnPc' = "wait"
            /\ UNCHANGED rnRet
    /\ UNCHANGED <<runInputs, rnAt, rnCA, rnDist, rnLast, rnPanic, exceptRun>>

\* worker: wavelets := dwt.HaarDWT(colors[yuv], width, blockMap);
\* colors[yuv] = nil; cA := wavelets[0].  HaarDWT computes len(data) / w.
EmbedDWT(c) ==
    /\ rnPc = "wait" /\ rnOp = "Embed" /\ rnWpc[c] = "dwt"
    /\ IF rnWidth = 0
       THEN /\ Panic("integer divide by zero")
            /\ UNCHANGED <<rnWpc, rnColors, rnCA>>
       ELSE /\ rnCA' = [rnCA EXCEPT ![c] = rnImage[c]]
            /\ rnColors' = [rnColors EXCEPT ![c] = "nil"]
            /\ rnWpc' = [rnWpc EXCEPT ![c] = "loop"]
            /\ UNCHANGED <<rnPc, rnPanic>>
    /\ UNCHANGED <<runInputs, rnAt, rnDist, rnLast, rnRet, exceptRun>>

\* worker: one iteration of "for at := range totalBlocks"
EmbedBlock(c) ==
    /\ rnPc = "wait" /\ rnOp = "Embed" /\ rnWpc[c] = "loop" /\ rnAt[c] < RunT
    /\ LET blk == rnCA[c][rnAt[c] + 1]
           rule == rnW.embed
       IN  IF rnMarkLen = 0
           THEN \* getBit: at%markLen
                /\ Panic("integer divide by zero")
                /\ UNCHANGED <<rnWpc, rnAt, rnCA>>
           ELSE IF ~blk.ok
           THEN \* if err != nil { return }, then the deferred wg.Done()
                /\ rnWpc' = [rnWpc EXCEPT ![c] = "done"]
                /\ UNCHANGED <<rnPc, rnPanic, rnAt, rnCA>>
           ELSE IF RulePanics(rule)
           THEN /\ Panic("integer divide by zero")
                /\ UNCHANGED <<rnWpc, rnAt, rnCA>>
           ELSE LET s == embed(rule, blk.s0, blk.s1, getBit(rnMark, rnAt[c]))
                IN  /\ rnCA' = [rnCA EXCEPT ![c][rnAt[c] + 1] =
                                   [ok |-> TRUE, s0 |-> s[1], s1 |-> s[2]]]
                    /\ rnAt' = [rnAt EXCEPT ![c] = @ + 1]
                    /\ UNCHANGED <<rnPc, rnPanic, rnWpc>>
    /\ UNCHANGED <<runInputs, rnColors, rnDist, rnLast, rnRet, exceptRun>>

\* worker: colors[yuv] = dwt.HaarIDWT(wavelets, width, height, blockMap)
EmbedIDWT(c) ==
    /\ rnPc = "wait" /\ rnOp = "Embed" /\ rnWpc[c] = "loop" /\ rnAt[c] = RunT
    /\ rnColors' = [rnColors EXCEPT ![c] = "idwt"]
    /\ rnWpc' = [rnWpc EXCEPT ![c] = "done"]
    /\ UNCHANGED <<runInputs, rnPc, rnAt, rnCA, rnDist, rnLast, rnRet, rnPanic, exceptRun>>

\* after wg.Wait(): yuv.YUVToRGBA64Batch(colors[0], colors[1], colors[2], ...)
\* reads y[i], u[i], v[i] for each of the area pixels; return dist, nil
EmbedBuild ==
    /\ rnPc = "wait" /\ rnOp = "Embed"
    /\ wgWait(rnWpc)
    /\ IF rnWidth * rnHeight > 0 /\ \E c \in Channels : rnColors[c] = "nil"
       THEN /\ Panic("index out of range")
            /\ UNCHANGED rnRet
       ELSE /\ rnRet' = [err |-> Nil, value |-> rnCA]
            /\ rnPc' = "returned"
            /\ UNCHANGED rnPanic
    /\ UNCHANGED <<runInputs, rnWpc, rnAt, rnColors, rnCA, rnDist, rnLast, exceptRun>>

\* Extract up to the three "go func": dist = make([]AverageStore, markLen),
\* the capacity check, the YUV buffers, the block map
ExtractEnter ==
    /\ rnPc = "call" /\ rnOp = "Extract"
    /\ IF rnMarkLen < 0
       THEN /\ Panic("makeslice: len out of range")
            /\ UNCHANGED <<rnRet, rnWpc, rnColors, rnDist>>
       ELSE IF RunT < rnMarkLen
       THEN /\ rnRet' = [err |-> ErrTooSmallImage, value |-> <<>>]
            /\ rnPc' = "returned"
            /\ UNCHANGED <<rnWpc, rnColors, rnDist, rnPanic>>
       ELSE /\ rnDist' = [i \in 1 .. rnMarkLen |-> ZeroStore]
            /\ rnColors' = [c \in Channels |-> "yuv"]
            /\ rnWpc' = [c \in Channels |-> "dwt"]
            /\ rnPc' = "wait"
            /\ UNCHANGED <<rnRet, rnPanic>>
    /\ UNCHANGED <<runInputs, rnAt, rnCA, rnLast, exceptRun>>

ExtractDWT(c) ==
    /\ rnPc = "wait" /\ rnOp = "Extract" /\ rnWpc[c] = "dwt"
    /\ IF rnWidth = 0
       THEN /\ Panic("integer divide by zero")
            /\ UNCHANGED <<rnWpc, rnColors, rnCA>>
       ELSE /\ rnCA' = [rnCA EXCEPT ![c] = rnImage[c]]
            /\ rnColors' = [rnColors EXCEPT ![c] = "nil"]
            /\ rnWpc' = [rnWpc EXCEPT ![c] = "loop"]
            /\ UNCHANGED <<rnPc, rnPanic>>
    /\ UNCHANGED <<runInputs, rnAt, rnDist, rnLast, rnRet, exceptRun>>

\* worker: one iteration: v := w.extract(s[0], s[1]); setValue(at, v), which
\* is dist[at%markLen].Add(v)
ExtractBlock(c) ==
    /\ rnPc = "wait" /\ rnOp = "Extract" /\ rnWpc[c] = "loop" /\ rnAt[c] < RunT
    /\ LET blk == rnCA[c][rnAt[c] + 1]
           rule == rnW.extract
       IN  IF ~blk.ok
           THEN /\ rnWpc' = [rnWpc EXCEPT ![c] = "done"]
                /\ UNCHANGED <<rnPc, rnPanic, rnAt, rnDist, rnLast>>
           ELSE IF RulePanics(rule) \/ rnMarkLen = 0
           THEN /\ Panic("integer divide by zero")
                /\ UNCHANGED <<rnWpc, rnAt, rnDist, rnLast>>
           ELSE LET v == Frac(extract(rule, blk.s0, blk.s1), Quarter)
                    i == GoRem(rnAt[c], rnMarkLen) + 1
                IN  /\ rnDist' = [rnDist EXCEPT ![i] = Add(@, v)]
                    /\ rnLast' = c
                    /\ rnAt' = [rnAt EXCEPT ![c] = @ + 1]
                    /\ UNCHANGED <<rnPc, rnPanic, rnWpc>>
    /\ UNCHANGED <<runInputs, rnColors, rnCA, rnRet, exceptRun>>

\* worker: the loop is over; the deferred wg.Done()
ExtractEnd(c) ==
    /\ rnPc = "wait" /\ rnOp = "Extract" /\ rnWpc[c] = "loop" /\ rnAt[c] = RunT
    /\ rnWpc' = [rnWpc EXCEPT ![c] = "done"]
    /\ UNCHANGED <<runInputs, rnPc, rnAt, rnColors, rnCA, rnDist, rnLast, rnRet, rnPanic, exceptRun>>

\* after wg.Wait(): avrs[i] = dist[i].Average(); return OneDimKmeans(avrs), nil
\* (OneDimKmeans reads averages[0] first)
ExtractJoin ==
    /\ rnPc = "wait" /\ rnOp = "Extract"
    /\ wgWait(rnWpc)
    /\ LET avrs == [i \in 1 .. rnMarkLen |-> Average(rnDist[i])]
       IN  IF rnMarkLen = 0
           THEN /\ Panic("index out of range")
                /\ UNCHANGED rnRet
           ELSE /\ rnRet' = [err |-> Nil, value |-> OneDimKmeans(avrs)]
                /\ rnPc' = "returned"
                /\ UNCHANGED rnPanic
    /\ UNCHANGED <<runInputs, rnWpc, rnAt, rnColors, rnCA, rnDist, rnLast, exceptRun>>

\* ------------------------------------------------ dwt: block map, Haar DWT
\* Slices are sequences; the Go index i is the position i + 1.
At(s, i) == s[i + 1]

\* NewBlockMap(w, h, bw, bh)
NewBlockMap(width, height, bw, bh) ==
    LET allocWidth == GoDiv(width, bw) * bw
        allocHeight == GoDiv(height, bh) * bh
    IN  [width |-> width, height |-> height,
         blockWidth |-> bw, blockHeight |-> bh,
         allocWidth |-> allocWidth, allocHeight |-> allocHeight,
         marginWidth |-> width - allocWidth,
         blockArea |-> bw * bh,
         totalAllocArea |-> allocWidth * allocHeight,
         blockRowArea |-> allocWidth * bh]

\* a get that numbers the right margin with the full width as its stride
getMarginByWidth(m, i) ==
    LET x == GoRem(i, m.width)
        y == GoDiv(i, m.width)
        mx == x - m.allocWidth
        start == GoDiv(y, m.blockHeight) * m.blockRowArea
                     + GoDiv(x, m.blockWidth) * m.blockArea
    IN  IF m.allocHeight <= y THEN i
        ELSE IF mx >= 0 THEN m.totalAllocArea + y * m.width + mx
        ELSE start + GoRem(y, m.blockHeight) * m.blockWidth + GoRem(x, m.blockWidth)

\* a get that numbers the pixels of a block column by column
getColumnMajor(m, i) ==
    LET x == GoRem(i, m.width)
        y == GoDiv(i, m.width)
        mx == x - m.allocWidth
        start == GoDiv(y, m.blockHeight) * m.blockRowArea
                     + GoDiv(x, m.blockWidth) * m.blockArea
    IN  IF m.allocHeight <= y THEN i
        ELSE IF mx >= 0 THEN m.totalAllocArea + y * m.marginWidth + mx
        ELSE start + GoRem(x, m.blockWidth) * m.blockHeight + GoRem(y, m.blockHeight)

\* BlockMap.get(i)
get(m, i) ==
    LET x == GoRem(i, m.width)
        y == GoDiv(i, m.width)
        mx == x - m.allocWidth
        brow == GoDiv(y, m.blockHeight)
        bcol == GoDiv(x, m.blockWidth)
        start == brow * m.blockRowArea + bcol * m.blockArea
        bx == GoRem(x, m.blockWidth)
        by == GoRem(y, m.blockHeight)
    IN  IF m.allocHeight <= y THEN i
        ELSE IF mx >= 0 THEN m.totalAllocArea + y * m.marginWidth + mx
        ELSE start + by * m.blockWidth + bx

\* BlockMap.GetMap()
GetMap(m) == [i \in 1 .. (m.width * m.height) |-> get(m, i - 1)]

\* cacd(v1, v2) = ((v1 + v2)/2 * Sqrt2, (v1 - (v1 + v2)/2) * Sqrt2), which is
\* (v1 + v2, v1 - v2) times Sqrt2/2: the model keeps the pair of integers and
\* leaves the factor, the same for every coefficient of a level, implicit
cacd(v1, v2) == <<v1 + v2, v1 - v2>>

Max(S) == CHOOSE x \in S : \A y \in S : y <= x

\* the array after "for i: out[indexMap[i]] = values[i]" on a zeroed array
Scatter(values, indexMap) ==
    [j \in 1 .. Len(values) |->
        LET ps == {p \in 1 .. Len(values) : indexMap[p] = j - 1}
        IN  IF ps = {} THEN 0 ELSE values[Max(ps)]]

\* a faulty re-permutation that reads through the map instead of writing
Gather(values, indexMap) ==
    [j \in 1 .. Len(values) |-> At(values, indexMap[j])]

\* the coefficients <<cA, cH, cV, cD>> of the 2x2 pixel group at wavelet
\* position p; a missing right column or bottom row repeats the last one
Coeffs(data, width, height, p) ==
    LET hw == WaveSide(width)
        y0 == 2 * GoDiv(p, hw)
        x0 == 2 * GoRem(p, hw)
        y1 == IF y0 + 1 < height THEN y0 + 1 ELSE y0
        x1 == IF x0 + 1 < width THEN x0 + 1 ELSE x0
        c1 == cacd(At(data, y0 * width + x0), At(data, y1 * width + x0))
        c2 == cacd(At(data, y0 * width + x1), At(data, y1 * width + x1))
        av == cacd(c1[1], c2[1])
        hd == cacd(c1[2], c2[2])
    IN  <<av[1], hd[1], av[2], hd[2]>>

\* a nil index map
NilMap == <<>>

\* HaarDWT(data, w, indexMap) for w > 0
HaarDWT(data, width, indexMap) ==
    LET height == GoDiv(Len(data), width)
        l == WaveSide(width) * WaveSide(height)
        map == IF indexMap = NilMap \/ Len(indexMap) # l
               THEN [i \in 1 .. l |-> i - 1]
               ELSE indexMap
    IN  [j \in 1 .. 4 |-> Scatter([p \in 1 .. l |-> Coeffs(data, width, height, p - 1)[j]], map)]

\* dwt.New(data, w)
WaveletsNew(data, width) ==
    [hw |-> WaveSide(width), hh |-> WaveSide(GoDiv(Len(data), width)),
     original |-> HaarDWT(data, width, NilMap)]

GetReadingThroughMap(wv, blockW, blockH) ==
    LET indexMap == GetMap(NewBlockMap(wv.hw, wv.hh, blockW, blockH))
    IN  [j \in 1 .. 4 |-> Gather(wv.original[j], indexMap)]

\* Wavelets.Get(blockW, blockH)
Get(wv, blockW, blockH) ==
    LET indexMap == GetMap(NewBlockMap(wv.hw, wv.hh, blockW, blockH))
    IN  [j \in 1 .. 4 |-> Scatter(wv.original[j], indexMap)]

MaxDwtW == 5
MaxDwtH == 3
MaxLit == 2
MaxBlockSide == 2

\* the subsets of 1 .. n with at most k elements
RECURSIVE SetsUpTo(_, _)
SetsUpTo(n, k) ==
    IF k = 0 THEN {{}}
    ELSE LET s == SetsUpTo(n, k - 1)
         IN  s \cup {x \cup {i} : x \in s, i \in 1 .. n}

\* a channel of n pixels, dark except for the lit ones
ChannelOf(lit, n) == [i \in 1 .. n |-> IF i \in lit THEN 1 ELSE 0]

NilWavelets == [hw |-> 0, hh |-> 0, original |-> <<>>]

DwtInit ==
    /\ dwW \in 1 .. MaxDwtW
    /\ \E h \in 1 .. MaxDwtH :
           dwData \in {ChannelOf(lit, dwW * h) : lit \in SetsUpTo(dwW * h, MaxLit)}
    /\ dwBw \in 1 .. MaxBlockSide
    /\ dwBh \in 1 .. MaxBlockSide
    /\ dwWavelets = NilWavelets
    /\ dwGot = <<>>
    /\ dwWant = <<>>

DwtIdle ==
    /\ dwW = 0 /\ dwData = <<>> /\ dwBw = 0 /\ dwBh = 0
    /\ dwWavelets = NilWavelets /\ dwGot = <<>> /\ dwWant = <<>>

\* the batch path caches: wavelets := dwt.New(data, w)
DwtNew ==
    /\ dwW > 0 /\ dwWavelets = NilWavelets
    /\ dwWavelets' = WaveletsNew(dwData, dwW)
    /\ UNCHANGED <<dwData, dwW, dwBw, dwBh, dwGot, dwWant, exceptDwt>>

\* the batch path re-permutes: got := wavelets.Get(...)
DwtGet ==
    /\ dwWavelets # NilWavelets /\ dwGot = <<>>
    /\ dwGot' = Get(dwWavelets, dwBw, dwBh)
    /\ UNCHANGED <<dwData, dwW, dwBw, dwBh, dwWavelets, dwWant, exceptDwt>>

\* the direct path: want := dwt.HaarDWT(data, w, NewBlockMap(...).GetMap())
DwtHaar ==
    /\ dwW > 0 /\ dwWant = <<>>
    /\ dwWant' = HaarDWT(dwData, dwW,
                         GetMap(NewBlockMap(WaveSide(dwW),
                                            WaveSide(GoDiv(Len(dwData), dwW)),
                                            dwBw, dwBh)))
    /\ UNCHANGED <<dwData, dwW, dwBw, dwBh, dwWavelets, dwGot, exceptDwt>>

\* C7: for every block map, Wavelets.Get returns exactly the four subbands
\* that HaarDWT with that map produces from the same channel.
C7_GetEqualsHaarDWT ==
    (dwGot # <<>> /\ dwWant # <<>>) => dwGot = dwWant

\* C7 witness: both paths ran on a 3x2 coefficient grid with one 2x2 block,
\* whose map is not the identity, and a channel that is not constant
C7_Witness ==
    /\ dwGot # <<>> /\ dwWant # <<>>
    /\ dwWavelets.hw = 3 /\ dwWavelets.hh = 2 /\ dwBw = 2 /\ dwBh = 2
    /\ dwGot[1] # dwWavelets.original[1]

\* ------------------------------------------------ dwt: inverse Haar DWT
\* icacd(a, d) = (a/Sqrt2 + d/Sqrt2, a/Sqrt2 - d/Sqrt2); on the integer pairs
\* of cacd this is ((a + d)/2, (a - d)/2), the exact inverse
icacd(a, d) == <<(a + d) \div 2, (a - d) \div 2>>

\* an inverse that reads the coefficients in place, whatever the map
HaarIDWTIgnoringMap(result, width, height, indexMap) ==
    LET hw == WaveSide(width)
        pixel(i) ==
            LET x == GoRem(i, width)
                y == GoDiv(i, width)
                idx == GoDiv(y, 2) * hw + GoDiv(x, 2)
                a == icacd(At(result[1], idx), At(result[3], idx))
                d == icacd(At(result[2], idx), At(result[4], idx))
                left == icacd(a[1], d[1])
                right == icacd(a[2], d[2])
            IN  IF GoRem(x, 2) = 0
                THEN (IF GoRem(y, 2) = 0 THEN left[1] ELSE left[2])
                ELSE (IF GoRem(y, 2) = 0 THEN right[1] ELSE right[2])
    IN  [i \in 1 .. (width * height) |-> pixel(i - 1)]

\* HaarIDWT(result, w, h, indexMap): every pixel is written once, from the
\* coefficients of its 2x2 group
HaarIDWT(result, width, height, indexMap) ==
    LET hw == WaveSide(width)
        pixel(i) ==
            LET x == GoRem(i, width)
                y == GoDiv(i, width)
                idx == At(indexMap, GoDiv(y, 2) * hw + GoDiv(x, 2))
                a == icacd(At(result[1], idx), At(result[3], idx))
                d == icacd(At(result[2], idx), At(result[4], idx))
                left == icacd(a[1], d[1])
                right == icacd(a[2], d[2])
            IN  IF GoRem(x, 2) = 0
                THEN (IF GoRem(y, 2) = 0 THEN left[1] ELSE left[2])
                ELSE (IF GoRem(y, 2) = 0 THEN right[1] ELSE right[2])
    IN  [i \in 1 .. (width * height) |-> pixel(i - 1)]

\* ------------------------------------- internal/watermark: batch embedding
\* Float arrays live in the heap under the name of the make() that created
\* them, <<call, role, channel, index>>; "outers" holds the [][]float32 lists
\* of channel buffers, which ImageSource values share when they are copied
\* by assignment.
BatchW == 3
BatchH == 3
MaxCalls == 2

BatchShape == NewBlockShape(4, 4)

\* NewImageCore: the ImageSource of the image whose channels are "data"
NewImageCore(width, height) ==
    [width |-> width, height |-> height, area |-> width * height,
     waveWidth |-> WaveSide(width), waveHeight |-> WaveSide(height),
     alpha |-> <<0, "alpha", 0, 0>>, colors |-> <<0, "colors", 0, 0>>]

\* a faulty Copy that returns the receiver: same channel list, same buffers
CopyShared(s, hp, os, call) == [src |-> s, heap |-> hp, outers |-> os]

\* ImageSource.Copy(): a new channel list of three new buffers holding the
\* contents of the receiver's; alpha stays shared
Copy(s, hp, os, call) ==
    LET tmp == <<call, "tmp", 0, 0>>
        buf(c) == <<call, "copy", c, 0>>
    IN  [src |-> [s EXCEPT !.colors = tmp],
         heap |-> [id \in DOMAIN hp \cup {buf(c) : c \in Channels} |->
                      IF id \in DOMAIN hp THEN hp[id] ELSE hp[os[s.colors][id[3]]]],
         outers |-> [id \in DOMAIN os \cup {tmp} |->
                      IF id \in DOMAIN os THEN os[id] ELSE [c \in Channels |-> buf(c)]]]

\* BlockShape.TotalBlocks(src)
TotalBlocks(shape, s) ==
    GoDiv(s.waveWidth, shape[1]) * GoDiv(s.waveHeight, shape[2])

\* what idct() leaves in a cell of the block after the singular values were
\* quantized for the bit: the model's stand-in for the DCT/SVD chain writes a
\* value that depends on the bit and keeps the inverse DWT integral
CellAfterEmbed(v, bit) == v + 4 * (1 + bit)

\* the arrays that stay allocated between calls: those the Batch refers to
BatchRoots(s, wvs, os) ==
    {s.alpha} \cup {os[s.colors][c] : c \in Channels}
        \cup {wvs[c].original[j] : c \in Channels, j \in 1 .. 4}

BatchInit ==
    /\ \E lit \in SetsUpTo(BatchW * BatchH, 1) :
           bcData = [c \in Channels |->
                        [i \in 1 .. (BatchW * BatchH) |-> IF i \in lit THEN 4 * c ELSE c]]
    /\ bcSubbands = [c \in Channels |-> WaveletsNew(bcData[c], BatchW).original]
    /\ bcSrc = NewImageCore(BatchW, BatchH)
    /\ bcWavelets = [c \in Channels |->
                        [hw |-> WaveSide(BatchW), hh |-> WaveSide(BatchH),
                         original |-> [j \in 1 .. 4 |-> <<0, "original", c, j>>]]]
    /\ outers = [id \in {bcSrc.colors} |-> [c \in Channels |-> <<0, "yuv", c, 0>>]]
    /\ heap = [id \in BatchRoots(bcSrc, bcWavelets, outers) |->
                  IF id[2] = "alpha" THEN [i \in 1 .. (BatchW * BatchH) |-> 0]
                  ELSE IF id[2] = "yuv" THEN bcData[id[3]]
                  ELSE bcSubbands[id[3]][id[4]]]
    /\ bcCalls = 0
    /\ bcImages = <<>>
    /\ bcImage = <<>>
    /\ bcOp = "none"
    /\ bcMark = <<>>
    /\ bcCallSrc = bcSrc
    /\ bcWave = [c \in Channels |-> <<>>]
    /\ bcWpc = [c \in Channels |-> "idle"]
    /\ bcAt = [c \in Channels |-> 0]

BatchIdle ==
    /\ bcData = <<>> /\ bcSubbands = <<>> /\ heap = <<>> /\ outers = <<>>
    /\ bcSrc = NewImageCore(0, 0)
    /\ bcWavelets = <<>>
    /\ bcCalls = 0 /\ bcImages = <<>> /\ bcImage = <<>> /\ bcOp = "idle" /\ bcMark = <<>>
    /\ bcCallSrc = NewImageCore(0, 0)
    /\ bcWave = [c \in Channels |-> <<>>]
    /\ bcWpc = [c \in Channels |-> "idle"]
    /\ bcAt = [c \in Channels |-> 0]

\* Batch.Embed(ctx, mark, opts...): the engine is called on a copy of the
\* batch's source, with the cached wavelets; then Embed up to its "go func"s
BatchEmbed ==
    /\ bcOp = "none" /\ bcCalls < MaxCalls
    /\ \E mark \in {<<TRUE>>, <<FALSE>>} : bcMark' = mark
    /\ LET cp == Copy(bcSrc, heap, outers, bcCalls + 1)
       IN  /\ bcCallSrc' = cp.src
           /\ heap' = cp.heap
           /\ outers' = cp.outers
    /\ bcOp' = "Embed"
    /\ bcCalls' = bcCalls + 1
    /\ bcWpc' = [c \in Channels |-> "wave"]
    /\ bcImage' = <<>>
    /\ UNCHANGED <<bcData, bcSubbands, bcSrc, bcWavelets, bcImages, bcWave, bcAt, exceptBatch>>

\* Batch.Extract(ctx, markLen, opts...), likewise
BatchExtract ==
    /\ bcOp = "none" /\ bcCalls < MaxCalls
    /\ bcMark' = <<>>
    /\ LET cp == Copy(bcSrc, heap, outers, bcCalls + 1)
       IN  /\ bcCallSrc' = cp.src
           /\ heap' = cp.heap
           /\ outers' = cp.outers
    /\ bcOp' = "Extract"
    /\ bcCalls' = bcCalls + 1
    /\ bcWpc' = [c \in Channels |-> "wave"]
    /\ bcImage' = <<>>
    /\ UNCHANGED <<bcData, bcSubbands, bcSrc, bcWavelets, bcImages, bcWave, bcAt, exceptBatch>>

\* worker of Embed or Extract: wavelets := wave(yuv), which is
\* wavelets[yuv].Get(...) on the cached wavelets: four new arrays
InternalWave(c) ==
    /\ bcOp \in {"Embed", "Extract"} /\ bcWpc[c] = "wave"
    /\ LET wv == bcWavelets[c]
           cached == [hw |-> wv.hw, hh |-> wv.hh,
                      original |-> [j \in 1 .. 4 |-> heap[wv.original[j]]]]
           got == Get(cached, BatchShape[1], BatchShape[2])
           ids == [j \in 1 .. 4 |-> <<bcCalls, "wave", c, j>>]
       IN  /\ heap' = [id \in DOMAIN heap \cup {ids[j] : j \in 1 .. 4} |->
                          IF id \in DOMAIN heap THEN heap[id] ELSE got[id[4]]]
           /\ bcWave' = [bcWave EXCEPT ![c] = ids]
    /\ bcWpc' = [bcWpc EXCEPT ![c] = "loop"]
    /\ UNCHANGED <<bcData, bcSubbands, outers, bcSrc, bcWavelets, bcCalls, bcImages, bcImage,
                   bcOp, bcMark, bcCallSrc, bcAt, exceptBatch>>

\* worker of Embed: one iteration; svd.Exec fails or not; idct() writes the
\* cells of block "at" of cA
InternalEmbedBlock(c) ==
    /\ bcOp = "Embed" /\ bcWpc[c] = "loop"
    /\ bcAt[c] < TotalBlocks(BatchShape, bcCallSrc)
    /\ \E ok \in BOOLEAN :
           IF ~ok
           THEN /\ bcWpc' = [bcWpc EXCEPT ![c] = "done"]
                /\ UNCHANGED <<heap, bcAt>>
           ELSE LET cA == bcWave[c][1]
                    blockArea == BatchShape[1] * BatchShape[2]
                    bit == getBit(bcMark, bcAt[c])
                IN  /\ heap' = [heap EXCEPT ![cA] =
                           [i \in 1 .. Len(@) |->
                               IF /\ bcAt[c] * blockArea <= i - 1
                                  /\ i - 1 < (bcAt[c] + 1) * blockArea
                               THEN CellAfterEmbed(@[i], bit) ELSE @[i]]]
                    /\ bcAt' = [bcAt EXCEPT ![c] = @ + 1]
                    /\ UNCHANGED bcWpc
    /\ UNCHANGED <<bcData, bcSubbands, outers, bcSrc, bcWavelets, bcCalls, bcImages, bcImage,
                   bcOp, bcMark, bcCallSrc, bcWave, exceptBatch>>

\* worker of Extract: one iteration; nothing is written back
InternalExtractBlock(c) ==
    /\ bcOp = "Extract" /\ bcWpc[c] = "loop"
    /\ bcAt[c] < TotalBlocks(BatchShape, bcCallSrc)
    /\ \E ok \in BOOLEAN :
           IF ~ok
           THEN /\ bcWpc' = [bcWpc EXCEPT ![c] = "done"]
                /\ UNCHANGED bcAt
           ELSE /\ bcAt' = [bcAt EXCEPT ![c] = @ + 1]
                /\ UNCHANGED bcWpc
    /\ UNCHANGED <<bcData, bcSubbands, heap, outers, bcSrc, bcWavelets, bcCalls, bcImages, bcImage,
                   bcOp, bcMark, bcCallSrc, bcWave, exceptBatch>>

\* worker of Embed or Extract:
\* src.colors[yuv] = dwt.HaarIDWT(wavelets, src.width, src.height, indexMap)
InternalIDWT(c) ==
    /\ bcOp \in {"Embed", "Extract"} /\ bcWpc[c] = "loop"
    /\ bcAt[c] = TotalBlocks(BatchShape, bcCallSrc)
    /\ LET s == bcCallSrc
           indexMap == GetMap(NewBlockMap(s.waveWidth, s.waveHeight,
                                          BatchShape[1], BatchShape[2]))
           data == HaarIDWT([j \in 1 .. 4 |-> heap[bcWave[c][j]]],
                            s.width, s.height, indexMap)
           id == <<bcCalls, "idwt", c, 0>>
       IN  /\ heap' = [i \in DOMAIN heap \cup {id} |->
                          IF i = id THEN data ELSE heap[i]]
           /\ outers' = [outers EXCEPT ![s.colors][c] = id]
    /\ bcWpc' = [bcWpc EXCEPT ![c] = "done"]
    /\ UNCHANGED <<bcData, bcSubbands, bcSrc, bcWavelets, bcCalls, bcImages, bcImage,
                   bcOp, bcMark, bcCallSrc, bcWave, bcAt, exceptBatch>>

\* after wg.Wait(): Embed returns src.build(), a new image of the call's
\* channels; Extract returns the bits.  What only the call referred to is
\* garbage.
InternalReturn ==
    /\ bcOp \in {"Embed", "Extract"}
    /\ \A c \in Channels : bcWpc[c] = "done"
    /\ IF bcOp = "Embed"
       THEN /\ bcImage' = [c \in Channels |-> heap[outers[bcCallSrc.colors][c]]]
            /\ bcImages' = Append(bcImages, <<bcCalls, "image", 0, 0>>)
       ELSE UNCHANGED <<bcImages, bcImage>>
    /\ outers' = [id \in {bcSrc.colors} |-> outers[id]]
    /\ heap' = [id \in BatchRoots(bcSrc, bcWavelets, outers) |-> heap[id]]
    /\ bcOp' = "none"
    /\ bcMark' = <<>>
    /\ bcCallSrc' = bcSrc
    /\ bcWave' = [c \in Channels |-> <<>>]
    /\ bcWpc' = [c \in Channels |-> "idle"]
    /\ bcAt' = [c \in Channels |-> 0]
    /\ UNCHANGED <<bcData, bcSubbands, bcSrc, bcWavelets, bcCalls, exceptBatch>>

HasKind(opts, k) == \E i \in 1 .. Len(opts) : opts[i].kind = k

\* the claim's formula for one dimension, in unbounded integers
RoundUpToEven(x) == IF x % 2 # 0 THEN x + 1 ELSE x
ClaimedHalfSide(x) == (IF RoundUpToEven(x) < 4 THEN 4 ELSE RoundUpToEven(x)) \div 2

\* C5 (as stated): a strength option whose d1 is not > 0 makes New return an
\* error and no engine.
C5_InvalidStrengthRejected ==
    (/\ nwPc \in {"built", "failed"}
     /\ \E i \in 1 .. Len(nwGiven) :
            nwGiven[i].kind \in {"WithD1", "WithD1D2"} /\ nwGiven[i].a <= 0)
        => (nwPc = "failed" /\ nwErr # Nil)

C10_Defaults ==
    nwPc = "built" =>
        /\ ~HasKind(nwGiven, "WithBlockShape") => w.blockShape = <<4, 4>>
        /\ (~HasKind(nwGiven, "WithD1") /\ ~HasKind(nwGiven, "WithD1D2")) =>
               /\ w.embed = [rule |-> "D1D2", d1 |-> 36, d2 |-> 20]
               /\ w.extract = [rule |-> "D1D2", d1 |-> 36, d2 |-> 20]

\* ---------------------------------------------------- claims C1, C2, C3, C8
RunEnded == rnPc \in {"returned", "panic"}

\* the claim's block count, in unbounded integers
ClaimedTotalBlocks ==
    (((rnWidth + 1) \div 2) \div rnW.blockShape[1])
        * (((rnHeight + 1) \div 2) \div rnW.blockShape[2])

\* C1 (as stated): Embed returns ErrTooSmallImage exactly when total_blocks is
\* smaller than the mark length, and for every other image and every mark
\* length >= 0 it succeeds and returns an image.  Stated here for images of
\* non-zero width whose blocks all factorize and an engine of non-zero strength.
C1_EmbedCapacity ==
    (/\ rnOp = "Embed" /\ RunEnded
     /\ rnWidth > 0 /\ Failed(rnImage) = 0 /\ ~RulePanics(rnW.embed))
        => IF ClaimedTotalBlocks < Len(rnMark)
           THEN rnPc = "returned" /\ rnRet.err = ErrTooSmallImage
           ELSE rnPc = "returned" /\ rnRet.err = Nil

\* the blocks of channel c that were embedded into: the value in cA is the
\* rule's output for the block's bit
Embedded(c, k) ==
    LET blk == rnImage[c][k]
        s == embed(rnW.embed, blk.s0, blk.s1, getBit(rnMark, k - 1))
    IN  k <= Len(rnCA[c]) /\ rnCA[c][k] = [ok |-> TRUE, s0 |-> s[1], s1 |-> s[2]]

RECURSIVE SumCounts(_, _)
SumCounts(dist, i) ==
    IF i > Len(dist) THEN 0 ELSE dist[i].count + SumCounts(dist, i + 1)

\* C2 (as stated): when a block's factorization fails, only that block is
\* skipped: the call ends without error or panic, in Embed every other block
\* is embedded and every channel is inverse-transformed, in Extract every
\* other block casts its vote.
C2_OnlyFailedBlockSkipped ==
    (/\ RunEnded /\ Failed(rnImage) > 0
     /\ rnWidth > 0 /\ rnMarkLen >= 1 /\ RunT >= rnMarkLen
     /\ ~RulePanics(rnW.embed))
        => /\ rnPc = "returned" /\ rnRet.err = Nil
           /\ rnOp = "Embed" =>
                  \A c \in Channels :
                      /\ rnColors[c] = "idwt"
                      /\ \A k \in 1 .. RunT : rnImage[c][k].ok => Embedded(c, k)
           /\ rnOp = "Extract" =>
                  SumCounts(rnDist, 1) = 3 * RunT - Failed(rnImage)

\* C3 (as stated): whenever total_blocks >= markLen, Extract returns no error
\* and a bit vector of exactly markLen entries, and never panics.  Stated here
\* for markLen >= 0, images of non-zero width whose blocks all factorize and
\* an engine of non-zero strength.
C3_ExtractReturnsMarkLenBits ==
    (/\ rnOp = "Extract" /\ RunEnded
     /\ rnMarkLen >= 0 /\ RunT >= rnMarkLen
     /\ rnWidth > 0 /\ Failed(rnImage) = 0 /\ ~RulePanics(rnW.extract))
        => /\ rnPc = "returned" /\ rnRet.err = Nil
           /\ Len(rnRet.value) = rnMarkLen

\* the accumulators after the workers ran one after the other: Y, then U,
\* then V, each over its blocks in order until the loop ends or returns
RECURSIVE RefChannel(_, _, _)
RefChannel(dist, c, at) ==
    IF at = RunT \/ ~rnImage[c][at + 1].ok THEN dist
    ELSE LET blk == rnImage[c][at + 1]
             v == Frac(extract(rnW.extract, blk.s0, blk.s1), Quarter)
         IN  RefChannel([dist EXCEPT ![GoRem(at, rnMarkLen) + 1] = Add(@, v)],
                        c, at + 1)

RefDist ==
    RefChannel(RefChannel(RefChannel([i \in 1 .. rnMarkLen |-> ZeroStore], 1, 0),
                          2, 0), 3, 0)

RefBits == OneDimKmeans([i \in 1 .. rnMarkLen |-> Average(RefDist[i])])

\* C8: every Extract call that returns a bit vector returns the vector of the
\* run in which the three workers run one after the other, whatever the
\* interleaving of their updates to the shared accumulators; so two calls on
\* the same image with the same options return identical vectors.
C8_ExtractDeterministic ==
    (rnOp = "Extract" /\ rnPc = "returned" /\ rnRet.err = Nil)
        => rnRet.value = RefBits

\* C8 witness: a two-bit extraction returned both labels after a run in which
\* the last vote came from the Y worker, after the V worker had finished
C8_Witness ==
    /\ rnOp = "Extract" /\ rnPc = "returned" /\ rnRet.err = Nil
    /\ RunT = 2 /\ rnMarkLen = 2 /\ Failed(rnImage) = 0
    /\ rnLast = 1 /\ rnAt = [c \in Channels |-> 2]
    /\ rnRet.value = <<TRUE, FALSE>>

\* ------------------------------------------- rule selection by strength (C11)
\* the rule the internal Embed and Extract build from their d1, d2 arguments:
\* if d2 < 1 the one-parameter closure, else the two-parameter closure
internalRule(d1, d2) ==
    IF d2 < 1 THEN RuleOf("D1", d1, 0) ELSE RuleOf("D1D2", d1, d2)

\* the engine New builds from the one option WithD1D2(d1, d2) or WithD1(d1)
EngineD1D2(d1, d2) == New(<<[kind |-> "WithD1D2", a |-> d1, b |-> d2]>>)
EngineD1(d1) == New(<<[kind |-> "WithD1", a |-> d1, b |-> 0]>>)

ModeD2s == (0 - MaxStrength) .. MaxStrength

ModeInit ==
    /\ mdPath = "none"
    /\ mdOp = "none"
    /\ mdD1 \in 1 .. MaxD
    /\ mdD2 \in ModeD2s
    /\ mdS0 \in SingularValues
    /\ mdS1 \in {s \in SingularValues : s <= mdS0}
    /\ mdBit \in Bits
    /\ mdR = <<mdS0, mdS1>>
    /\ mdV = 0
    /\ mdPc = "read"

ModeIdle ==
    /\ mdPath = "none" /\ mdOp = "none" /\ mdD1 = 1 /\ mdD2 = 0
    /\ mdS0 = 0 /\ mdS1 = 0 /\ mdBit = 0 /\ mdR = <<0, 0>> /\ mdV = 0
    /\ mdPc = "idle"

\* one block written or read with rule r; integer division by a zero
\* strength is a run-time panic
ModeApply(path, op, r) ==
    /\ mdPath' = path
    /\ mdOp' = op
    /\ IF RulePanics(r)
       THEN mdPc' = "panic" /\ UNCHANGED <<mdR, mdV>>
       ELSE /\ mdPc' = "done"
            /\ IF op = "embed"
               THEN mdR' = embed(r, mdS0, mdS1, mdBit) /\ UNCHANGED mdV
               ELSE mdV' = extract(r, mdS0, mdS1) /\ UNCHANGED mdR
    /\ UNCHANGED <<mdD1, mdD2, mdS0, mdS1, mdBit, exceptMode>>

\* s[0], s[1] = w.embed(s[0], s[1], bit) in the engine New(WithD1D2(d1, d2))
ModeEngineEmbed ==
    /\ mdPc = "read"
    /\ ModeApply("engine", "embed", EngineD1D2(mdD1, mdD2).embed)

\* v := w.extract(s[0], s[1]) in the engine New(WithD1D2(d1, d2))
ModeEngineExtract ==
    /\ mdPc = "read"
    /\ ModeApply("engine", "extract", EngineD1D2(mdD1, mdD2).extract)

\* s[0], s[1] = embed(s[0], s[1], bit) in the internal Embed(..., d1, d2)
ModeInternalEmbed ==
    /\ mdPc = "read"
    /\ ModeApply("internal", "embed", internalRule(mdD1, mdD2))

\* v := extract(s[0], s[1]) in the internal Extract(..., d1, d2)
ModeInternalExtract ==
    /\ mdPc = "read"
    /\ ModeApply("internal", "extract", internalRule(mdD1, mdD2))

\* what the engine built with the d1-only option does to the same block
OneParameterOutcome ==
    [pc |-> "done",
     r |-> IF mdOp = "embed" THEN embed(EngineD1(mdD1).embed, mdS0, mdS1, mdBit)
           ELSE <<mdS0, mdS1>>,
     v |-> IF mdOp = "extract" THEN extract(EngineD1(mdD1).extract, mdS0, mdS1)
           ELSE 0]

\* C11: with a strength whose d2 is below 1, a block is embedded and extracted
\* exactly as by the engine built with the d1-only strength option
C11_OneParameterMode ==
    (mdPc \in {"done", "panic"} /\ mdD2 < 1)
        => [pc |-> mdPc, r |-> mdR, v |-> mdV] = OneParameterOutcome

\* the same, for the rule the internal Embed and Extract select
InternalOneParameterMode ==
    (mdPc \in {"done", "panic"} /\ mdD2 < 1 /\ mdPath = "internal")
        => [pc |-> mdPc, r |-> mdR, v |-> mdV] = OneParameterOutcome

\* ------------------------------------------------------------- claim C12
\* mark bit number (k mod mark length), as 0 or 1
ClaimedBit(k) == IF rnMark[(k % rnMarkLen) + 1] THEN 1 ELSE 0

\* block number k (from 0) of channel c as the claimed bit leaves it
ClaimedBlock(c, k) ==
    LET blk == rnImage[c][k + 1]
        s == embed(rnW.embed, blk.s0, blk.s1, ClaimedBit(k))
    IN  [ok |-> TRUE, s0 |-> s[1], s1 |-> s[2]]

\* C12: every step of an Embed worker that writes a block writes the block
\* whose index is the worker's counter, embeds it with mark bit number
\* (index mod mark length) whatever the channel, leaves the other blocks
\* alone and advances the counter by one, so that blocks are written in the
\* order 0, 1, 2, ...
C12_BlocksInOrderWithBitKModLen ==
    [][\A c \in Channels :
          (rnOp = "Embed" /\ rnWpc[c] = "loop"
              /\ (rnCA'[c] # rnCA[c] \/ rnAt'[c] # rnAt[c]))
          => LET k == rnAt[c]
             IN  /\ k \in 0 .. (RunT - 1)
                 /\ rnAt'[c] = k + 1
                 /\ rnCA'[c] = [rnCA[c] EXCEPT ![k + 1] = ClaimedBlock(c, k)]
                 /\ \A j \in 1 .. k : rnCA[c][j] = ClaimedBlock(c, j - 1)]_vars

\* an Embed whose three workers went through more blocks than the mark has
\* bits, so that a bit was used again, with a mark whose bits differ or a
\* single bit
C12_Witness ==
    /\ rnOp = "Embed" /\ rnMarkLen >= 1 /\ RunT > rnMarkLen
    /\ \A c \in Channels :
          /\ rnAt[c] = RunT
          /\ \A k \in 0 .. (RunT - 1) : rnCA[c][k + 1] = ClaimedBlock(c, k)

\* ------------------------------------------------- dct.Cache (C13, C14)
MaxGoroutines == 2
MaxLookups == 3
MaxCacheSide == 2

Goroutines == 1 .. MaxGoroutines
\* the block shapes asked for: w x (w + 1)
CacheShapes == {<<side, side + 1>> : side \in 1 .. MaxCacheSide}

\* fmt.Sprintf("%d", n): the decimal digits of n, with a sign when negative
DigitChars == <<"0", "1", "2", "3", "4", "5", "6", "7", "8", "9">>

RECURSIVE Digits(_)
Digits(n) ==
    IF n < 0 THEN <<"-">> \o Digits(0 - n)
    ELSE IF n < 10 THEN <<DigitChars[n + 1]>>
    ELSE Append(Digits(n \div 10), DigitChars[(n % 10) + 1])

\* key := fmt.Sprintf("%d-%d", w, h)
Key(width, height) == Digits(width) \o <<"-">> \o Digits(height)

\* dct.New(w, h) called by goroutine g when n lookups have begun: a new engine
NilDct == [id |-> <<0, 0>>, w |-> 0, h |-> 0]
dctNew(g, n, width, height) == [id |-> <<g, n>>, w |-> width, h |-> height]

\* c.data.Load(key)
Load(data, key) ==
    IF key \in DOMAIN data THEN [v |-> data[key], ok |-> TRUE]
    ELSE [v |-> NilDct, ok |-> FALSE]

\* a Store in place of LoadOrStore: the last stored engine wins
LoadOrStoreOverwriting(data, key, dct) ==
    [actual |-> dct, loaded |-> FALSE,
     data |-> [k \in DOMAIN data \cup {key} |-> IF k = key THEN dct ELSE data[k]]]

\* c.data.LoadOrStore(key, dct)
LoadOrStore(data, key, dct) ==
    IF key \in DOMAIN data
    THEN [actual |-> data[key], loaded |-> TRUE, data |-> data]
    ELSE [actual |-> dct, loaded |-> FALSE,
          data |-> [k \in DOMAIN data \cup {key} |-> IF k = key THEN dct ELSE data[k]]]

\* NewCache(), and goroutines about to call Cache.New
CacheInit ==
    /\ cacheData = <<>>
    /\ ccPc = [g \in Goroutines |-> "idle"]
    /\ ccShape = [g \in Goroutines |-> <<1, 2>>]
    /\ ccDct = [g \in Goroutines |-> NilDct]
    /\ ccCalls = 0
    /\ ccComputed = [s \in CacheShapes |-> 0]
    /\ ccReturned = [s \in CacheShapes |-> {}]
    /\ ccFinished = [s \in CacheShapes |-> 0]

CacheIdle ==
    /\ cacheData = <<>>
    /\ ccPc = <<>> /\ ccShape = <<>> /\ ccDct = <<>> /\ ccCalls = 0
    /\ ccComputed = <<>> /\ ccReturned = <<>> /\ ccFinished = <<>>

\* return v of Cache.New called with shape s
CacheReturn(g, s, v) ==
    /\ ccReturned' = [ccReturned EXCEPT ![s] = @ \cup {v}]
    /\ ccFinished' = [ccFinished EXCEPT ![s] = @ + 1]
    /\ ccPc' = [ccPc EXCEPT ![g] = "idle"]

\* Cache.New(w, h) up to its Load: key := ...; if v, ok := c.data.Load(key);
\* ok { return v.(*DCT) }
CacheNewLoad(g) ==
    /\ ccPc[g] = "idle" /\ ccCalls < MaxLookups
    /\ ccCalls' = ccCalls + 1
    /\ \E s \in CacheShapes :
          LET l == Load(cacheData, Key(s[1], s[2]))
          IN  /\ ccShape' = [ccShape EXCEPT ![g] = s]
              /\ IF l.ok
                 THEN CacheReturn(g, s, l.v)
                 ELSE /\ ccPc' = [ccPc EXCEPT ![g] = "miss"]
                      /\ UNCHANGED <<ccReturned, ccFinished>>
    /\ UNCHANGED <<cacheData, ccDct, ccComputed, exceptCache>>

\* dct := New(w, h)
CacheNewCompute(g) ==
    /\ ccPc[g] = "miss"
    /\ ccDct' = [ccDct EXCEPT ![g] = dctNew(g, ccCalls, ccShape[g][1], ccShape[g][2])]
    /\ ccComputed' = [ccComputed EXCEPT ![ccShape[g]] = @ + 1]
    /\ ccPc' = [ccPc EXCEPT ![g] = "computed"]
    /\ UNCHANGED <<cacheData, ccShape, ccCalls, ccReturned, ccFinished, exceptCache>>

\* actual, loaded := c.data.LoadOrStore(key, dct);
\* if loaded { return actual.(*DCT) }; return dct
CacheNewLoadOrStore(g) ==
    /\ ccPc[g] = "computed"
    /\ LET s == ccShape[g]
           r == LoadOrStore(cacheData, Key(s[1], s[2]), ccDct[g])
       IN  /\ cacheData' = r.data
           /\ CacheReturn(g, s, IF r.loaded THEN r.actual ELSE ccDct[g])
    /\ ccDct' = [ccDct EXCEPT ![g] = NilDct]
    /\ UNCHANGED <<ccShape, ccCalls, ccComputed, exceptCache>>

\* C13 (as stated): the engine of a block shape is computed at most once,
\* also when several goroutines ask for the same uncached shape together
C13_ComputedAtMostOnce ==
    \A s \in CacheShapes : ccComputed[s] <= 1

\* C14: all lookups of one block shape return the same engine, the one the
\* cache holds for the shape (the first stored), and an engine computed by a
\* goroutine that lost the insertion is returned by no lookup
C14_OneInstancePerShape ==
    \A s \in CacheShapes :
        /\ Cardinality(ccReturned[s]) <= 1
        /\ \A v \in ccReturned[s] :
              /\ Key(s[1], s[2]) \in DOMAIN cacheData
              /\ cacheData[Key(s[1], s[2])] = v
              /\ v.w = s[1] /\ v.h = s[2]

\* two goroutines computed the engine of the same shape, one lost the
\* insertion, and both lookups have returned
C14_Witness ==
    \E s \in CacheShapes :
        /\ ccComputed[s] >= 2
        /\ ccFinished[s] >= 2
        /\ \A g \in Goroutines : ccPc[g] = "idle"

\* ------------------------------- AverageStore.Add under its mutex (C15)
MaxStoreBlocks == 2

\* the votes extract returns, in quarters: 0, 1/4, 3/4, 1
Votes == {0, 1, 3, 4}

\* a mutex that never makes its caller wait
MutexIgnored(holder) == TRUE

\* s.mu.Lock() returns only when no goroutine holds the mutex
MutexFree(holder) == holder = 0

\* setValue's index: at%markLen, counted from 1
StoreIndex(c) == GoRem(asAt[c], asMarkLen) + 1

\* Extract past its capacity check: dist = make([]AverageStore, markLen),
\* three workers about to loop over the blocks; asVote[c] is the vote the
\* blocks of channel c cast (the workers run the same code, so the votes are
\* taken in non-decreasing order of channel)
StoreInit ==
    /\ asT \in 1 .. MaxStoreBlocks
    /\ asMarkLen \in 1 .. asT
    /\ asVote \in {f \in [Channels -> Votes] : f[1] <= f[2] /\ f[2] <= f[3]}
    /\ asDist = [i \in 1 .. asMarkLen |-> ZeroStore]
    /\ asMu = [i \in 1 .. asMarkLen |-> 0]
    /\ asPc = [c \in Channels |-> "loop"]
    /\ asAt = [c \in Channels |-> 0]
    /\ asTmp = [c \in Channels |-> 0]
    /\ asJoined = FALSE

StoreIdle ==
    /\ asT = 0 /\ asMarkLen = 0 /\ asVote = <<>> /\ asDist = <<>> /\ asMu = <<>>
    /\ asPc = <<>> /\ asAt = <<>> /\ asTmp = <<>> /\ asJoined = FALSE

\* worker: v := w.extract(...); setValue(at, v) enters Add: s.mu.Lock()
StoreLock(c) ==
    /\ asPc[c] = "loop" /\ asAt[c] < asT
    /\ MutexFree(asMu[StoreIndex(c)])
    /\ asMu' = [asMu EXCEPT ![StoreIndex(c)] = c]
    /\ asPc' = [asPc EXCEPT ![c] = "locked"]
    /\ UNCHANGED <<asT, asMarkLen, asVote, asDist, asAt, asTmp, asJoined, exceptStore>>

\* s.sum += value: the read of s.sum
StoreReadSum(c) ==
    /\ asPc[c] = "locked"
    /\ asTmp' = [asTmp EXCEPT ![c] = asDist[StoreIndex(c)].sum]
    /\ asPc' = [asPc EXCEPT ![c] = "sum"]
    /\ UNCHANGED <<asT, asMarkLen, asVote, asDist, asMu, asAt, asJoined, exceptStore>>

\* s.sum += value: the write of s.sum
StoreWriteSum(c) ==
    /\ asPc[c] = "sum"
    /\ asDist' = [asDist EXCEPT ![StoreIndex(c)].sum =
                     FAdd(asTmp[c], Frac(asVote[c], Quarter))]
    /\ asTmp' = [asTmp EXCEPT ![c] = 0]
    /\ asPc' = [asPc EXCEPT ![c] = "summed"]
    /\ UNCHANGED <<asT, asMarkLen, asVote, asMu, asAt, asJoined, exceptStore>>

\* s.count += 1: the read of s.count
StoreReadCount(c) ==
    /\ asPc[c] = "summed"
    /\ asTmp' = [asTmp EXCEPT ![c] = asDist[StoreIndex(c)].count]
    /\ asPc' = [asPc EXCEPT ![c] = "count"]
    /\ UNCHANGED <<asT, asMarkLen, asVote, asDist, asMu, asAt, asJoined, exceptStore>>

\* s.count += 1: the write of s.count; then the deferred s.mu.Unlock() and
\* the next iteration of the worker's loop (Add's frame is gone)
StoreWriteCount(c) ==
    /\ asPc[c] = "count"
    /\ asDist' = [asDist EXCEPT ![StoreIndex(c)].count = asTmp[c] + 1]
    /\ asMu' = [asMu EXCEPT ![StoreIndex(c)] = 0]
    /\ asAt' = [asAt EXCEPT ![c] = @ + 1]
    /\ asTmp' = [asTmp EXCEPT ![c] = 0]
    /\ asPc' = [asPc EXCEPT ![c] = "loop"]
    /\ UNCHANGED <<asT, asMarkLen, asVote, asJoined, exceptStore>>

\* worker: the loop is over; the deferred wg.Done()
StoreWorkerEnd(c) ==
    /\ asPc[c] = "loop" /\ asAt[c] = asT
    /\ asPc' = [asPc EXCEPT ![c] = "done"]
    /\ UNCHANGED <<asT, asMarkLen, asVote, asDist, asMu, asAt, asTmp, asJoined, exceptStore>>

\* wg.Wait() returns
StoreJoin ==
    /\ ~asJoined
    /\ \A c \in Channels : asPc[c] = "done"
    /\ asJoined' = TRUE
    /\ UNCHANGED <<asT, asMarkLen, asVote, asDist, asMu, asPc, asAt, asTmp, exceptStore>>

\* the block indexes that vote for logical bit i (from 1)
BlocksOfBit(i) == {k \in 0 .. (asT - 1) : k % asMarkLen = i - 1}

RECURSIVE SumOfVotes(_)
SumOfVotes(cs) ==
    IF cs = {} THEN 0
    ELSE LET c == CHOOSE x \in cs : TRUE
         IN  asVote[c] + SumOfVotes(cs \ {c})

\* C15: after the three extract workers have joined, the accumulator of
\* every logical bit i holds three times as many votes as there are block
\* indexes k with k mod markLen = i, and the sum of exactly those votes,
\* whatever the interleaving of the workers' Add calls
C15_NoVoteLost ==
    asJoined =>
        \A i \in 1 .. asMarkLen :
            /\ asDist[i].count = 3 * Cardinality(BlocksOfBit(i))
            /\ asDist[i].sum =
                   Frac(Cardinality(BlocksOfBit(i)) * SumOfVotes(Channels), Quarter)

\* the workers have joined after two of them waited for the same store:
\* more blocks than bits, and votes that differ between channels
C15_Witness ==
    /\ asJoined /\ asT = 2 /\ asMarkLen = 1
    /\ asVote[1] = 1 /\ asVote[2] = 3 /\ asVote[3] = 4
    /\ asDist[1] = [sum |-> Frac(16, Quarter), count |-> 6]

\* ------------------------------------------------------------- claim C16
\* C16: the step of an Embed or Extract call that starts workers starts the
\* three of them, one per channel, and no other step starts one; and the
\* step that reads the averages and runs 2-means, or rebuilds the image, and
\* returns is taken only when all three workers have finished
C16_JoinBarrier ==
    [][/\ (\E c \in Channels : rnWpc[c] = "idle" /\ rnWpc'[c] # "idle")
            => /\ rnPc = "call"
               /\ Channels = 1 .. 3
               /\ \A c \in Channels : rnWpc[c] = "idle" /\ rnWpc'[c] = "dwt"
       /\ (rnPc = "wait" /\ (rnRet' # rnRet \/ rnPc' = "returned"))
            => \A c \in Channels : rnWpc[c] = "done"]_vars

\* a call that returned its image or its bits after its three workers went
\* through their blocks and finished
C16_Witness ==
    /\ rnPc = "returned" /\ rnRet.err = Nil /\ RunT >= 1
    /\ \A c \in Channels : rnWpc[c] = "done" /\ rnAt[c] = RunT

\* ------------------------------------------------- block map (C17, C18)
MaxMapSide == 4
MaxMapBlock == 3

\* var m BlockMap: every field zero
ZeroBlockMap ==
    [width |-> 0, height |-> 0, blockWidth |-> 0, blockHeight |-> 0,
     allocWidth |-> 0, allocHeight |-> 0, marginWidth |-> 0,
     blockArea |-> 0, totalAllocArea |-> 0, blockRowArea |-> 0]

MapInit ==
    /\ bmW \in 1 .. MaxMapSide
    /\ bmH \in 1 .. MaxMapSide
    /\ bmBw \in 1 .. MaxMapBlock
    /\ bmBh \in 1 .. MaxMapBlock
    /\ bmM = ZeroBlockMap
    /\ bmMap = <<>>
    /\ bmPc = "call"

MapIdle ==
    /\ bmW = 0 /\ bmH = 0 /\ bmBw = 0 /\ bmBh = 0
    /\ bmM = ZeroBlockMap /\ bmMap = <<>> /\ bmPc = "idle"

\* m := NewBlockMap(W, H, bw, bh)
MapNew ==
    /\ bmPc = "call"
    /\ bmM' = NewBlockMap(bmW, bmH, bmBw, bmBh)
    /\ bmPc' = "built"
    /\ UNCHANGED <<bmW, bmH, bmBw, bmBh, bmMap, exceptMap>>

\* m.GetMap()
MapGetMap ==
    /\ bmPc = "built"
    /\ bmMap' = GetMap(bmM)
    /\ bmPc' = "mapped"
    /\ UNCHANGED <<bmW, bmH, bmBw, bmBh, bmM, exceptMap>>

\* C17: for every W, H, bw, bh >= 1 the map GetMap returns has W*H entries
\* and every index of 0 .. W*H-1 appears in it exactly once
C17_MapIsPermutation ==
    bmPc = "mapped" =>
        /\ Len(bmMap) = bmW * bmH
        /\ \A d \in 0 .. (bmW * bmH - 1) :
              Cardinality({i \in 1 .. Len(bmMap) : bmMap[i] = d}) = 1

\* a 3 x 3 grid with 2 x 2 blocks: one block, a right and a bottom margin
C17_Witness ==
    /\ bmPc = "mapped" /\ bmW = 3 /\ bmH = 3 /\ bmBw = 2 /\ bmBh = 2
    /\ bmMap = <<0, 1, 4, 2, 3, 5, 6, 7, 8>>

\* blocks per row and per column, and the area of a block, as the claim
\* counts them
BlocksAcross == bmW \div bmBw
BlocksDown == bmH \div bmBh
TileArea == bmBw * bmBh

\* the destination the claim gives the pixel (x, y)
ClaimedDestination(x, y) ==
    IF y >= BlocksDown * bmBh THEN y * bmW + x
    ELSE IF x >= BlocksAcross * bmBw
    THEN BlocksAcross * BlocksDown * TileArea
             + y * (bmW - BlocksAcross * bmBw) + (x - BlocksAcross * bmBw)
    ELSE ((y \div bmBh) * BlocksAcross + (x \div bmBw)) * TileArea
             + (y % bmBh) * bmBw + (x % bmBw)

\* C18: the pixels mapped to the destinations k*A .. (k+1)*A-1 are the tile
\* at block column k mod (W div bw) and block row k div (W div bw), row by
\* row inside the tile; right-margin pixels follow all blocks row by row and
\* bottom-margin pixels keep their index
C18_MapIsBlockMajor ==
    bmPc = "mapped" =>
        /\ \A k \in 0 .. (BlocksAcross * BlocksDown - 1) :
              \A by \in 0 .. (bmBh - 1), bx \in 0 .. (bmBw - 1) :
                  LET x == (k % BlocksAcross) * bmBw + bx
                      y == (k \div BlocksAcross) * bmBh + by
                  IN  bmMap[y * bmW + x + 1] = k * TileArea + by * bmBw + bx
        /\ \A x \in 0 .. (bmW - 1), y \in 0 .. (bmH - 1) :
              bmMap[y * bmW + x + 1] = ClaimedDestination(x, y)

\* a 4 x 3 grid with 2 x 2 blocks: two blocks side by side above a bottom
\* margin
C18_Witness ==
    /\ bmPc = "mapped" /\ bmW = 4 /\ bmH = 3 /\ bmBw = 2 /\ bmBh = 2
    /\ bmMap = <<0, 1, 4, 5, 2, 3, 6, 7, 8, 9, 10, 11>>

\* --------------------------------------- DWT round trip (C19, C20)
MaxTripSide == 3
MaxTripLit == 2

\* the identity permutation of 0 .. l-1
IdentityMap(l) == [i \in 1 .. l |-> i - 1]

\* the index maps handed to both transforms: none, and the block maps of
\* the coefficient grid
TripMaps(width, height) ==
    {NilMap} \cup {GetMap(NewBlockMap(WaveSide(width), WaveSide(height), bw, bh)) :
                      bw \in 1 .. MaxBlockSide, bh \in 1 .. MaxBlockSide}

TripInit ==
    /\ rtW \in 1 .. MaxTripSide
    /\ rtH \in 1 .. MaxTripSide
    /\ rtData \in {ChannelOf(lit, rtW * rtH) : lit \in SetsUpTo(rtW * rtH, MaxTripLit)}
    /\ rtMap \in TripMaps(rtW, rtH)
    /\ rtWave = <<>>
    /\ rtOut = <<>>
    /\ rtPc = "call"

TripIdle ==
    /\ rtW = 0 /\ rtH = 0 /\ rtData = <<>> /\ rtMap = <<>>
    /\ rtWave = <<>> /\ rtOut = <<>> /\ rtPc = "idle"

\* wavelets := dwt.HaarDWT(data, w, indexMap)
TripForward ==
    /\ rtPc = "call"
    /\ rtWave' = HaarDWT(rtData, rtW, rtMap)
    /\ rtPc' = "forward"
    /\ UNCHANGED <<rtData, rtW, rtH, rtMap, rtOut, exceptTrip>>

\* dist := dwt.HaarIDWT(wavelets, w, h, indexMap); its first statement in
\* the loop is idx := indexMap[(y0/2)*hw+(x0/2)], an index out of range when
\* the map is shorter than the coefficient grid
TripInverse ==
    /\ rtPc = "forward"
    /\ IF rtW * rtH > 0 /\ Len(rtMap) < WaveSide(rtW) * WaveSide(rtH)
       THEN rtPc' = "panic" /\ UNCHANGED rtOut
       ELSE /\ rtOut' = HaarIDWT(rtWave, rtW, rtH, rtMap)
            /\ rtPc' = "inverted"
    /\ UNCHANGED <<rtData, rtW, rtH, rtMap, rtWave, exceptTrip>>

\* C19 (as stated): with a nil map both transforms return what they return
\* with the identity map
C19_NilMapIsIdentity ==
    (rtMap = NilMap /\ rtPc \in {"forward", "inverted", "panic"})
        => /\ rtWave = HaarDWT(rtData, rtW, IdentityMap(WaveSide(rtW) * WaveSide(rtH)))
           /\ (rtPc = "forward"
                  \/ (/\ rtPc = "inverted"
                      /\ rtOut = HaarIDWT(rtWave, rtW, rtH,
                                          IdentityMap(WaveSide(rtW) * WaveSide(rtH)))))

\* the forward half of C19, which the code has: HaarDWT with a nil map
\* returns what it returns with the identity map
NilMapForwardIsIdentity ==
    (rtMap = NilMap /\ rtPc # "call")
        => rtWave = HaarDWT(rtData, rtW, IdentityMap(WaveSide(rtW) * WaveSide(rtH)))

\* C20: for every W, H >= 1 and every block map of the coefficient grid, the
\* inverse transform of the forward transform is the channel it started
\* from, pixel by pixel, and has W*H pixels
C20_RoundTrip ==
    (rtPc = "inverted" /\ rtMap # NilMap)
        => /\ Len(rtOut) = rtW * rtH
           /\ rtOut = rtData

\* a 3 x 3 channel (odd in both directions) with two lit pixels went through
\* a map that is not the identity and came back
C20_Witness ==
    /\ rtPc = "inverted" /\ rtW = 3 /\ rtH = 3
    /\ rtMap # NilMap /\ rtMap # IdentityMap(4)
    /\ rtData # ChannelOf({}, 9)
    /\ rtOut = rtData

\* ------------------------------ Embed's block loop on cA (C21, C22)
MaxBkW == 7
MaxBkH == 5
MaxBkSide == 3

\* a slicing whose blocks start one coefficient early for each block before
SliceOverlapping(at, blockArea) == <<at * (blockArea - 1), at * (blockArea - 1) + blockArea>>

\* data := cA[at*blockArea : (at+1)*blockArea : (at+1)*blockArea], as the
\* pair <<low, high>> of the slice expression
Slice(at, blockArea) == <<at * blockArea, (at + 1) * blockArea>>

\* the idct closure of DCT.Exec on the sub-slice that starts at low:
\* data[i*w+j] = float32(sum) for i < h, j < w, which are cA[low + i*w + j];
\* every coefficient of the block takes the value embedding gives it
idct(cA, low, shape, bit) ==
    [p \in 1 .. Len(cA) |->
        IF \E i \in 0 .. (shape[2] - 1), j \in 0 .. (shape[1] - 1) :
               p - 1 = low + i * shape[1] + j
        THEN CellAfterEmbed(cA[p], bit)
        ELSE cA[p]]

\* a worker of Embed after its DWT: wavelets := dwt.HaarDWT(colors[yuv],
\* width, blockMap); cA := wavelets[0].  The stored block shape has sides
\* of at least 2.
BlocksInit ==
    /\ bkW \in 1 .. MaxBkW
    /\ bkH \in 1 .. MaxBkH
    /\ bkShape \in (2 .. MaxBkSide) \X (2 .. MaxBkSide)
    /\ \E lit \in SetsUpTo(bkW * bkH, 1) :
          bkBefore = HaarDWT(ChannelOf(lit, bkW * bkH), bkW,
                             GetMap(NewBlockMap(WaveSide(bkW), WaveSide(bkH),
                                                bkShape[1], bkShape[2])))
    /\ bkWave = bkBefore
    /\ bkAt = 0
    /\ bkSlices = <<>>
    /\ bkPc = "loop"

BlocksIdle ==
    /\ bkW = 0 /\ bkH = 0 /\ bkShape = <<0, 0>> /\ bkBefore = <<>> /\ bkWave = <<>>
    /\ bkAt = 0 /\ bkSlices = <<>> /\ bkPc = "idle"

\* one iteration of "for at := range totalBlocks": the slice expression
\* panics when its high bound exceeds cap(cA); dct.Exec, svd.Exec, embed,
\* isvd() and idct() then rewrite the block in place.  bkSlices records the
\* slice and the coefficients of cA the iteration changed.
BlocksLoop ==
    /\ bkPc = "loop" /\ bkAt < totalBlocks(bkShape, bkW, bkH)
    /\ LET s == Slice(bkAt, bkShape[1] * bkShape[2])
       IN  IF s[1] < 0 \/ s[2] > Len(bkWave[1])
           THEN /\ bkPc' = "panic"
                /\ UNCHANGED <<bkWave, bkAt, bkSlices>>
           ELSE \E bit \in Bits :
                   LET cA == idct(bkWave[1], s[1], bkShape, bit)
                   IN  /\ bkWave' = [bkWave EXCEPT ![1] = cA]
                       /\ bkSlices' = Append(bkSlices,
                              [low |-> s[1], high |-> s[2],
                               changed |-> {p \in 0 .. (Len(cA) - 1) :
                                               cA[p + 1] # bkWave[1][p + 1]}])
                       /\ bkAt' = bkAt + 1
                       /\ UNCHANGED bkPc
    /\ UNCHANGED <<bkW, bkH, bkShape, bkBefore, exceptBlocks>>

\* the loop is over: colors[yuv] = dwt.HaarIDWT(wavelets, ...) starts
BlocksIDWT ==
    /\ bkPc = "loop" /\ bkAt >= totalBlocks(bkShape, bkW, bkH)
    /\ bkPc' = "idwt"
    /\ UNCHANGED <<bkW, bkH, bkShape, bkBefore, bkWave, bkAt, bkSlices, exceptBlocks>>

\* total_blocks and A as the claims count them
ClaimedBlockCount == (WaveSide(bkW) \div bkShape[1]) * (WaveSide(bkH) \div bkShape[2])
ClaimedBlockArea == bkShape[1] * bkShape[2]

\* C21: when the inverse DWT starts, cH, cV and cD are what the DWT
\* returned, and so is every coefficient of cA outside the block region
\* 0 .. total_blocks*A - 1 (the right and bottom margins)
C21_OnlyBlockRegionWritten ==
    bkPc = "idwt" =>
        /\ \A j \in 2 .. 4 : bkWave[j] = bkBefore[j]
        /\ Len(bkWave[1]) = Len(bkBefore[1])
        /\ \A p \in 1 .. Len(bkWave[1]) :
              p > ClaimedBlockCount * ClaimedBlockArea => bkWave[1][p] = bkBefore[1][p]

\* a 7 x 5 channel with 2 x 2 blocks: the two blocks of the 4 x 3 grid were
\* rewritten, and the 4 coefficients of its bottom row were not
C21_Witness ==
    /\ bkPc = "idwt" /\ bkW = 7 /\ bkH = 5 /\ bkShape = <<2, 2>>
    /\ Len(bkSlices) = 2
    /\ \A p \in 1 .. 8 : bkWave[1][p] # bkBefore[1][p]
    /\ \A p \in 9 .. 12 : bkWave[1][p] = bkBefore[1][p]

\* C22: the sub-slices handed to dct.Exec have A coefficients each, lie
\* inside cA ((k+1)*A <= W_wave*H_wave), are pairwise disjoint, and the
\* iteration of block k changes coefficients of its own sub-slice only
C22_SlicesDisjointInsideCA ==
    /\ bkPc # "panic"
    /\ \A k \in 1 .. Len(bkSlices) :
          LET s == bkSlices[k]
          IN  /\ s.low = (k - 1) * ClaimedBlockArea
              /\ s.high = k * ClaimedBlockArea
              /\ s.high <= WaveSide(bkW) * WaveSide(bkH)
              /\ s.changed \subseteq s.low .. (s.high - 1)
              /\ \A m \in 1 .. Len(bkSlices) :
                    m # k => (s.low .. (s.high - 1))
                                 \cap (bkSlices[m].low .. (bkSlices[m].high - 1)) = {}

\* a 7 x 3 channel with 2 x 2 blocks: cA holds exactly two blocks, both
\* rewritten, each iteration changing its own four coefficients
C22_Witness ==
    /\ bkPc = "idwt" /\ bkW = 7 /\ bkH = 3 /\ bkShape = <<2, 2>>
    /\ Len(bkSlices) = 2
    /\ bkSlices[1].changed = 0 .. 3
    /\ bkSlices[2].changed = 4 .. 7

\* ------------------------------------------- claims C23, C24, C25, C29
\* (floor(s/d) + 1/4 + bit/4) * d in quarters, for s = sq/4
ClaimedEmbedValue(sq, d, bit) == Quarter * (sq \div (Quarter * d)) * d + d + bit * d

\* C23: for s0, s1 >= 0, strengths d1, d2 > 0 and a bit, the embed rule
\* returns s0' = (floor(s0/d1) + 1/4 + bit/4) * d1, with s1' = s1 in
\* one-parameter mode and s1' = (floor(s1/d2) + 1/4 + bit/4) * d2 in
\* two-parameter mode
C23_EmbedFormula ==
    ruPc = "embedded" =>
        /\ ruR[1] = ClaimedEmbedValue(ruS0, ruD1, ruBit)
        /\ ruR[2] = IF ruRule = "D1" THEN ruS1
                    ELSE ClaimedEmbedValue(ruS1, ruD2, ruBit)

\* s0 = 5.75 and s1 = 2.25 embedded with d1 = 3, d2 = 2 and bit 1:
\* s0' = (1 + 1/2) * 3 = 4.5 and s1' = (1 + 1/2) * 2 = 3
C23_Witness ==
    /\ ruPc = "embedded" /\ ruRule = "D1D2" /\ ruD1 = 3 /\ ruD2 = 2
    /\ ruS0 = 23 /\ ruS1 = 9 /\ ruBit = 1
    /\ ruR = <<18, 12>>

\* C24 (as stated): the value embedded for bit 1 lies half a cell above the
\* value embedded for bit 0: s0'(1) - s0'(0) = d1/2 (values in quarters)
C24_HalfCellApart ==
    (ruPc = "embedded" /\ ruBit = 1)
        => 2 * (ruR[1] - embed(RuleOf(ruRule, ruD1, ruD2), ruS0, ruS1, 0)[1])
               = Quarter * ruD1

\* C25: with v0 = 1 iff floor(s0) mod d1 > d1/2 and v1 = 1 iff
\* floor(s1) mod d2 > d2/2, one-parameter extract returns v0, whatever s1,
\* and two-parameter extract returns (3*v0 + v1)/4
ClaimedVote(sq, d) == IF 2 * ((sq \div Quarter) % d) > d THEN 1 ELSE 0

C25_ExtractFormula ==
    ruPc = "voted" =>
        /\ ruV = IF ruRule = "D1" THEN Quarter * ClaimedVote(ruS0, ruD1)
                 ELSE 3 * ClaimedVote(ruS0, ruD1) + ClaimedVote(ruS1, ruD2)
        /\ ruRule = "D1" => ruV \in {0, Quarter}
        /\ ruRule = "D1D2" => ruV \in {0, 1, 3, Quarter}
        /\ ruRule = "D1" =>
              \A s1 \in SingularValues : extract(RuleOf("D1", ruD1, 0), ruS0, s1) = ruV

\* s0 = 5.5 and s1 = 2 read with d1 = 3, d2 = 4: 5 mod 3 = 2 > 3/2 and
\* 2 mod 4 = 2 is not above 4/2, so the vote is 3/4
C25_Witness ==
    /\ ruPc = "voted" /\ ruRule = "D1D2" /\ ruD1 = 3 /\ ruD2 = 4
    /\ ruS0 = 22 /\ ruS1 = 8
    /\ ruV = 3

\* C29 (as stated): embedding keeps the two values in descending order:
\* for s0 >= s1 >= 0, s0' >= s1'
C29_OrderPreserved ==
    (ruPc = "embedded" /\ ruS0 >= ruS1) => ruR[1] >= ruR[2]

\* ------------------------------------ OneDimKmeans, iteration by iteration
\* (claims C26, C27, C30)
MaxAvgs == 3
MaxAvgDen == 2

\* the averages a bit can have: votes lie in [0, 1], so sum/count is a
\* fraction in [0, 1]; a bit that received no vote has 0/0
AvgValues == UNION {{Frac(n, d) : n \in 0 .. d} : d \in 0 .. MaxAvgDen}

\* a loop whose counter does not advance
NextIterationStuck(iter) == iter

\* "for range 300": the iterations run so far
NextIteration(iter) == iter + 1

KmeansInit ==
    /\ kmAverages \in {s \in SeqsUpTo(AvgValues, MaxAvgs) : Len(s) >= 1}
    /\ kmCenter = <<<<0, 1>>, <<0, 1>>>>
    /\ kmLabels = <<>>
    /\ kmSizes = <<0, 0>>
    /\ kmIter = 0
    /\ kmPc = "call"

KmeansIdle ==
    /\ kmAverages = <<>> /\ kmCenter = <<<<0, 1>>, <<0, 1>>>> /\ kmLabels = <<>>
    /\ kmSizes = <<0, 0>> /\ kmIter = 0 /\ kmPc = "idle"

\* var center = func() [2]float64 {...}(): min and max of the averages
KmeansCenters ==
    /\ kmPc = "call"
    /\ kmCenter' = MinMax(kmAverages, 1, kmAverages[1], kmAverages[1])
    /\ kmPc' = "loop"
    /\ UNCHANGED <<kmAverages, kmLabels, kmSizes, kmIter>>
    /\ UNCHANGED exceptKmeans

\* one iteration of the loop: a fresh isClass01, the threshold, one pass
\* over the averages, the new centers, and the break on convergence
\* (each local is bound to its value once, as the code computes it once)
KmeansIterate ==
    /\ kmPc = "loop"
    /\ kmIter < maxIter
    /\ \E threshold \in {Midpoint(kmCenter)} :
       \E pass \in {Assign(kmAverages, threshold, 1, <<>>, ZeroStore, ZeroStore)} :
       \E next \in {<<Average(pass.higts), Average(pass.lows)>>} :
       \E diff \in {FAbs(FSub(Midpoint(next), threshold))} :
           /\ kmLabels' = pass.labels
           /\ kmSizes' = <<pass.higts.count, pass.lows.count>>
           /\ kmCenter' = next
           /\ kmIter' = NextIteration(kmIter)
           /\ kmPc' = IF FLt(diff, etol) THEN "break" ELSE "loop"
    /\ UNCHANGED kmAverages
    /\ UNCHANGED exceptKmeans

\* return isClass01: after the break, or after the 300th iteration
KmeansReturn ==
    /\ \/ kmPc = "break"
       \/ kmPc = "loop" /\ kmIter >= maxIter
    /\ kmPc' = "returned"
    /\ UNCHANGED <<kmAverages, kmCenter, kmLabels, kmSizes, kmIter>>
    /\ UNCHANGED exceptKmeans

AllFinite(averages) == \A i \in 1 .. Len(averages) : ~IsNaN(averages[i])
AllIdentical(averages) ==
    \A i, j \in 1 .. Len(averages) : averages[i] = averages[j]

\* the reference 2-means, written from its description
ClaimedMin(averages) ==
    CHOOSE v \in {averages[i] : i \in 1 .. Len(averages)} :
        \A i \in 1 .. Len(averages) : FLe(v, averages[i])
ClaimedMax(averages) ==
    CHOOSE v \in {averages[i] : i \in 1 .. Len(averages)} :
        \A i \in 1 .. Len(averages) : FLe(averages[i], v)
ClaimedThreshold(c) == FDivInt(FAdd(c[1], c[2]), 2)
ClaimedLabels(averages, c) ==
    [i \in 1 .. Len(averages) |-> FLe(ClaimedThreshold(c), averages[i])]
RECURSIVE SumOver(_, _)
SumOver(averages, members) ==
    IF members = {} THEN <<0, 1>>
    ELSE LET i == CHOOSE m \in members : TRUE
         IN  FAdd(averages[i], SumOver(averages, members \ {i}))
ClaimedMean(averages, members) ==
    FDivInt(SumOver(averages, members), Cardinality(members))
ClaimedCenters(averages, labels) ==
    {ClaimedMean(averages, {i \in 1 .. Len(averages) : labels[i]}),
     ClaimedMean(averages, {i \in 1 .. Len(averages) : ~labels[i]})}
ClaimedStop(old, new) ==
    FLt(FAbs(FSub(ClaimedThreshold(new), ClaimedThreshold(old))), etol)

KmeansStepIsReference ==
    (kmPc = "loop" /\ kmIter' # kmIter) =>
        /\ kmIter' = kmIter + 1
        /\ kmLabels' = ClaimedLabels(kmAverages, kmCenter)
        /\ {kmCenter'[1], kmCenter'[2]} = ClaimedCenters(kmAverages, kmLabels')
        /\ (kmPc' = "break") <=> ClaimedStop(kmCenter, kmCenter')
        /\ kmPc' \in {"break", "loop"}

KmeansStateIsReference ==
    /\ (kmPc = "loop" /\ kmIter = 0 /\ AllFinite(kmAverages)) =>
           kmCenter = <<ClaimedMin(kmAverages), ClaimedMax(kmAverages)>>
    /\ kmIter <= 300
    /\ kmPc = "returned" =>
           /\ kmIter >= 1
           /\ Len(kmLabels) = Len(kmAverages)
           /\ \A i, j \in 1 .. Len(kmAverages) :
                  (kmLabels[i] /\ ~kmLabels[j]) => ~FLe(kmAverages[i], kmAverages[j])

\* C26: OneDimKmeans is the reference 2-means: centers start at the min and
\* max of the input; each of at most 300 iterations labels avg[i] true iff
\* avg[i] >= (c0 + c1)/2, recomputes each center as the mean of its members
\* and stops when the new midpoint is within 1e-6 of the threshold; the
\* result has one label per input and true marks the high cluster.
C26_MatchesReference ==
    /\ []KmeansStateIsReference
    /\ [][KmeansStepIsReference]_vars

C26_Witness ==
    /\ kmPc = "returned"
    /\ Len(kmAverages) = 3
    /\ kmAverages[1] = <<0, 1>> /\ kmAverages[2] = <<1, 2>> /\ kmAverages[3] = <<1, 1>>
    /\ kmIter = 2
    /\ kmLabels[1] = FALSE /\ kmLabels[2] = TRUE /\ kmLabels[3] = TRUE

\* C27: when all the averages are identical the call terminates and returns
\* one boolean label per input, the labelling the function has for that
\* input on every call.
C27_IdenticalTerminates ==
    (AllIdentical(kmAverages) /\ kmPc = "call") ~>
        (/\ kmPc = "returned"
         /\ kmLabels \in [1 .. Len(kmAverages) -> BOOLEAN]
         /\ kmLabels = OneDimKmeans(kmAverages))

C27_Witness ==
    /\ kmPc = "returned"
    /\ Len(kmAverages) = 2
    /\ kmAverages[1] = <<1, 2>> /\ kmAverages[2] = <<1, 2>>
    /\ kmIter = 300
    /\ kmLabels[1] = FALSE /\ kmLabels[2] = FALSE

BothClustersNonEmpty ==
    /\ kmSizes[1] > 0 /\ kmSizes[2] > 0
    /\ ~IsNaN(kmCenter[1]) /\ ~IsNaN(kmCenter[2])
    /\ \A i \in 1 .. Len(kmAverages) :
           /\ (\A j \in 1 .. Len(kmAverages) : FLe(kmAverages[i], kmAverages[j]))
                  => ~kmLabels[i]
           /\ (\A j \in 1 .. Len(kmAverages) : FLe(kmAverages[j], kmAverages[i]))
                  => kmLabels[i]

Milli == 1000
ColourStep == 17

\* const delta = .5, in millionths
delta == 500000
\* yr, yg, yb, uf, vf and vr, ug, vg, ub, in thousandths
yr == 299
yg == 587
yb == 114
uf == 492
vf == 877
vr == 1140
ug == 0 - 395
vg == 0 - 581
ub == 2032

\* c * x for c in thousandths and x in millionths
Scale(c, x) ==
    <<c * (x \div Milli) + (c * (x % Milli)) \div Milli, (c * (x % Milli)) % Milli>>

Plus(a, b) == <<a[1] + b[1] + (a[2] + b[2]) \div Milli, (a[2] + b[2]) % Milli>>

\* a value in thousandths as <<millionths, 0>>
OfMilli(x) == <<x * Milli, 0>>

\* a clip16 without the two range tests: the conversion to uint16 wraps
clip16Unclamped(rgb) ==
    ((rgb[1] \div (Milli * Milli)) * 257
        + (257 * (rgb[1] % (Milli * Milli)) + (257 * rgb[2]) \div Milli)
              \div (Milli * Milli)) % 65536

\* clip16: 0 below 0, 65535 above 255, else uint16(rgb * 257.0), which
\* truncates
clip16(rgb) ==
    IF rgb[1] < 0 THEN 0
    ELSE IF rgb[1] > 255 * Milli * Milli \/ (rgb[1] = 255 * Milli * Milli /\ rgb[2] > 0)
         THEN 65535
    ELSE (rgb[1] \div (Milli * Milli)) * 257
         + (257 * (rgb[1] % (Milli * Milli)) + (257 * rgb[2]) \div Milli)
               \div (Milli * Milli)

\* the 8-bit channel values tried, 0 and 255 among them
Levels == {k * ColourStep : k \in 0 .. (255 \div ColourStep)} \cup {255}
AlphaValues == {0, 255, 65535}

\* color.RGBA64{R, G, B, A}.RGBA() of an 8-bit colour: each channel c is
\* c * 0x101 in 16 bits
RGBA(r, g, b, a) == [r32 |-> r * 257, g32 |-> g * 257, b32 |-> b * 257, a32 |-> a]

NoPixel == [R |-> 0, G |-> 0, B |-> 0, A |-> 0]

YuvInit ==
    /\ yuPixel \in {RGBA(r, g, b, a) : r \in Levels, g \in Levels, b \in Levels,
                                        a \in AlphaValues}
    /\ yuY = 0 /\ yuU = 0 /\ yuV = 0 /\ yuAlpha = 0
    /\ yuOut = NoPixel
    /\ yuPc = "pixels"

YuvIdle ==
    /\ yuPixel = RGBA(0, 0, 0, 0)
    /\ yuY = 0 /\ yuU = 0 /\ yuV = 0 /\ yuAlpha = 0
    /\ yuOut = NoPixel
    /\ yuPc = "idle"

\* ColorToYUVBatch, at the pixel's index
ColorToYUVBatch ==
    /\ yuPc = "pixels"
    /\ \E r \in {yuPixel.r32 \div 256}, g \in {yuPixel.g32 \div 256},
          b \in {yuPixel.b32 \div 256} :
       \E yVal \in {yr * r + yg * g + yb * b} :
           /\ yuY' = yVal
           /\ yuU' = uf * (Milli * b - yVal) + delta
           /\ yuV' = vf * (Milli * r - yVal) + delta
    /\ yuAlpha' = yuPixel.a32 % 65536
    /\ yuPc' = "planes"
    /\ UNCHANGED <<yuPixel, yuOut>>
    /\ UNCHANGED exceptYuv

\* YUVToRGBA64Batch, at the pixel's index
YUVToRGBA64Batch ==
    /\ yuPc = "planes"
    /\ \E uDelta \in {yuU - delta}, vDelta \in {yuV - delta} :
           yuOut' = [R |-> clip16(Plus(OfMilli(yuY), Scale(vr, vDelta))),
                     G |-> clip16(Plus(Plus(OfMilli(yuY), Scale(ug, uDelta)),
                                       Scale(vg, vDelta))),
                     B |-> clip16(Plus(OfMilli(yuY), Scale(ub, uDelta))),
                     A |-> yuAlpha]
    /\ yuPc' = "written"
    /\ UNCHANGED <<yuPixel, yuY, yuU, yuV, yuAlpha>>
    /\ UNCHANGED exceptYuv

\* C28: for every 8-bit R, G, B and every 16-bit alpha, ColorToYUVBatch
\* followed by YUVToRGBA64Batch returns each colour channel at most 512 away
\* from value * 257 (two steps of the 8-bit scale) and the alpha unchanged.
C28_RoundTripWithinTolerance ==
    yuPc = "written" =>
        /\ Abs(yuOut.R - yuPixel.r32) <= 512
        /\ Abs(yuOut.G - yuPixel.g32) <= 512
        /\ Abs(yuOut.B - yuPixel.b32) <= 512
        /\ yuOut.A = yuPixel.a32

C28_Witness ==
    /\ yuPc = "written"
    /\ yuPixel = RGBA(0, 255, 0, 255)
    /\ yuOut.G = 65535
    /\ yuOut.A = 255

\* --------------------------------------------------------- specifications
\* Each specification runs one part of the program; the others stay idle.
ShapeNext == CallWithBlockShape \/ CallnewBlockShape \/ CallNewBlockShape

InitShape ==
    ShapeInit /\ NewIdle /\ RuleIdle /\ RunIdle /\ DwtIdle /\ BatchIdle /\ ModeIdle /\ CacheIdle /\ StoreIdle /\ MapIdle /\ TripIdle /\ BlocksIdle /\ KmeansIdle /\ YuvIdle

SpecShape == InitShape /\ [][ShapeNext]_vars

NewNext == NewApplyOption \/ NewInitDefaults

InitNew ==
    NewInit /\ ShapeIdle /\ RuleIdle /\ RunIdle /\ DwtIdle /\ BatchIdle /\ ModeIdle /\ CacheIdle /\ StoreIdle /\ MapIdle /\ TripIdle /\ BlocksIdle /\ KmeansIdle /\ YuvIdle

SpecNew == InitNew /\ [][NewNext]_vars

RuleNext == RuleEmbed \/ RuleExtract \/ RuleExtractRaw

InitRule ==
    RuleInit /\ ShapeIdle /\ NewIdle /\ RunIdle /\ DwtIdle /\ BatchIdle /\ ModeIdle /\ CacheIdle /\ StoreIdle /\ MapIdle /\ TripIdle /\ BlocksIdle /\ KmeansIdle /\ YuvIdle

SpecRule == InitRule /\ [][RuleNext]_vars

RunNext ==
    \/ EmbedEnter
    \/ \E c \in Channels : EmbedDWT(c)
    \/ \E c \in Channels : EmbedBlock(c)
    \/ \E c \in Channels : EmbedIDWT(c)
    \/ EmbedBuild
    \/ ExtractEnter
    \/ \E c \in Channels : ExtractDWT(c)
    \/ \E c \in Channels : ExtractBlock(c)
    \/ \E c \in Channels : ExtractEnd(c)
    \/ ExtractJoin

Init ==
    RunInit /\ ShapeIdle /\ NewIdle /\ RuleIdle /\ DwtIdle /\ BatchIdle /\ ModeIdle /\ CacheIdle /\ StoreIdle /\ MapIdle /\ TripIdle /\ BlocksIdle /\ KmeansIdle /\ YuvIdle

Spec == Init /\ [][RunNext]_vars

DwtNext == DwtNew \/ DwtGet \/ DwtHaar

InitDwt ==
    DwtInit /\ ShapeIdle /\ NewIdle /\ RuleIdle /\ RunIdle /\ BatchIdle /\ ModeIdle /\ CacheIdle /\ StoreIdle /\ MapIdle /\ TripIdle /\ BlocksIdle /\ KmeansIdle /\ YuvIdle

SpecDwt == InitDwt /\ [][DwtNext]_vars

BatchNext ==
    \/ BatchEmbed
    \/ BatchExtract
    \/ \E c \in Channels : InternalWave(c)
    \/ \E c \in Channels : InternalEmbedBlock(c)
    \/ \E c \in Channels : InternalExtractBlock(c)
    \/ \E c \in Channels : InternalIDWT(c)
    \/ InternalReturn

InitBatch ==
    BatchInit /\ ShapeIdle /\ NewIdle /\ RuleIdle /\ RunIdle /\ DwtIdle /\ ModeIdle /\ CacheIdle /\ StoreIdle /\ MapIdle /\ TripIdle /\ BlocksIdle /\ KmeansIdle /\ YuvIdle

SpecBatch == InitBatch /\ [][BatchNext]_vars

ModeNext ==
    \/ ModeEngineEmbed
    \/ ModeEngineExtract
    \/ ModeInternalEmbed
    \/ ModeInternalExtract

InitMode ==
    ModeInit /\ ShapeIdle /\ NewIdle /\ RuleIdle /\ RunIdle /\ DwtIdle /\ BatchIdle /\ CacheIdle /\ StoreIdle /\ MapIdle /\ TripIdle /\ BlocksIdle /\ KmeansIdle /\ YuvIdle

SpecMode == InitMode /\ [][ModeNext]_vars

CacheNext ==
    \/ \E g \in Goroutines : CacheNewLoad(g)
    \/ \E g \in Goroutines : CacheNewCompute(g)
    \/ \E g \in Goroutines : CacheNewLoadOrStore(g)

InitCache ==
    CacheInit /\ ShapeIdle /\ NewIdle /\ RuleIdle /\ RunIdle /\ DwtIdle /\ BatchIdle /\ ModeIdle /\ StoreIdle /\ MapIdle /\ TripIdle /\ BlocksIdle /\ KmeansIdle /\ YuvIdle

SpecCache == InitCache /\ [][CacheNext]_vars

StoreNext ==
    \/ \E c \in Channels : StoreLock(c)
    \/ \E c \in Channels : StoreReadSum(c)
    \/ \E c \in Channels : StoreWriteSum(c)
    \/ \E c \in Channels : StoreReadCount(c)
    \/ \E c \in Channels : StoreWriteCount(c)
    \/ \E c \in Channels : StoreWorkerEnd(c)
    \/ StoreJoin

InitStore ==
    StoreInit /\ ShapeIdle /\ NewIdle /\ RuleIdle /\ RunIdle /\ DwtIdle /\ BatchIdle /\ ModeIdle /\ CacheIdle /\ MapIdle /\ TripIdle /\ BlocksIdle /\ KmeansIdle /\ YuvIdle

SpecStore == InitStore /\ [][StoreNext]_vars

MapNext ==
    \/ MapNew
    \/ MapGetMap

InitMap ==
    MapInit /\ ShapeIdle /\ NewIdle /\ RuleIdle /\ RunIdle /\ DwtIdle /\ BatchIdle /\ ModeIdle /\ CacheIdle /\ StoreIdle /\ TripIdle /\ BlocksIdle /\ KmeansIdle /\ YuvIdle

SpecMap == InitMap /\ [][MapNext]_vars

TripNext ==
    \/ TripForward
    \/ TripInverse

InitTrip ==
    TripInit /\ ShapeIdle /\ NewIdle /\ RuleIdle /\ RunIdle /\ DwtIdle /\ BatchIdle /\ ModeIdle /\ CacheIdle /\ StoreIdle /\ MapIdle /\ BlocksIdle /\ KmeansIdle /\ YuvIdle

SpecTrip == InitTrip /\ [][TripNext]_vars

BlocksNext ==
    \/ BlocksLoop
    \/ BlocksIDWT

InitBlocks ==
    BlocksInit /\ ShapeIdle /\ NewIdle /\ RuleIdle /\ RunIdle /\ DwtIdle /\ BatchIdle /\ ModeIdle /\ CacheIdle /\ StoreIdle /\ MapIdle /\ TripIdle /\ KmeansIdle /\ YuvIdle

SpecBlocks == InitBlocks /\ [][BlocksNext]_vars

KmeansNext ==
    \/ KmeansCenters
    \/ KmeansIterate
    \/ KmeansReturn

InitKmeans ==
    KmeansInit /\ ShapeIdle /\ NewIdle /\ RuleIdle /\ RunIdle /\ DwtIdle /\ BatchIdle /\ ModeIdle /\ CacheIdle /\ StoreIdle /\ MapIdle /\ TripIdle /\ BlocksIdle /\ YuvIdle

SpecKmeans == InitKmeans /\ [][KmeansNext]_vars

\* calls whose averages are all identical; the call is one goroutine's
\* straight-line code: it keeps taking steps
InitKmeansIdentical ==
    KmeansInit /\ AllIdentical(kmAverages) /\ ShapeIdle /\ NewIdle /\ RuleIdle /\ RunIdle /\ DwtIdle /\ BatchIdle /\ ModeIdle /\ CacheIdle /\ StoreIdle /\ MapIdle /\ TripIdle /\ BlocksIdle /\ YuvIdle

SpecKmeansFair == InitKmeansIdentical /\ [][KmeansNext]_vars /\ WF_vars(KmeansNext)

YuvNext ==
    \/ ColorToYUVBatch
    \/ YUVToRGBA64Batch

InitYuv ==
    YuvInit /\ ShapeIdle /\ NewIdle /\ RuleIdle /\ RunIdle /\ DwtIdle /\ BatchIdle /\ ModeIdle /\ CacheIdle /\ StoreIdle /\ MapIdle /\ TripIdle /\ BlocksIdle /\ KmeansIdle

SpecYuv == InitYuv /\ [][YuvNext]_vars

====
